---- MODULE Spec2Model ----
(***************************************************************************)
(* A model of the Go rule engine: the bit-packed Board, the union-find     *)
(* grouping of connected cells, the Analysis (owners and liberties of the  *)
(* groups) and the Game state machine (place_stone, pass_turn and the      *)
(* capture protocol).                                                      *)
(***************************************************************************)
EXTENDS Integers, Sequences, FiniteSets, TLC

\* BoardSize3x3::SIZE, the smallest board size the engine is built for.
N == 3

\* Width in bits of BoardSize3x3::Index (u8), the integer inside NumStones.
IndexBits == 8

\* The number of calls (place_stone or pass_turn) made on one Game.
MaxMoves == 5

NumCells == N * N

\* Pos::all_positions: the indices 0 .. N*N-1 in row-major order.
all_positions == 0 .. (NumCells - 1)

\* enum Player.
Player == {"Black", "White"}

\* Option<Player>::None, the value of an empty cell.
NoPlayer == "None"

other_player(p) == IF p = "Black" THEN "White" ELSE "Black"

---------------------------------------------------------------------------
(* NumStones: an unsigned integer of IndexBits bits.                       *)

IndexModulus == 2 ^ IndexBits

num_add(a, b) == (a + b) % IndexModulus

num_sub(a, b) == (a - b) % IndexModulus

---------------------------------------------------------------------------
(* Pos: index = y*N + x.  An Option<Pos> is the empty set or a singleton.  *)

pos_x(pos) == pos % N

pos_y(pos) == pos \div N

from_xy(px, py) == py * N + px

\* Mutant: the cell before pos in the scan, also across the start of a row.
left_crosses_rows(pos) == IF pos > 0 THEN {num_sub(pos, 1)} ELSE {}

left(pos) == IF pos_x(pos) > 0 THEN {num_sub(pos, 1)} ELSE {}

\* Mutant: the cell after pos in the scan, also across the end of a row.
right_crosses_rows(pos) == IF pos < NumCells - 1 THEN {num_add(pos, 1)} ELSE {}

right(pos) == IF pos_x(pos) < N - 1 THEN {num_add(pos, 1)} ELSE {}

\* Mutant: the cells of the second row have no upper neighbour either.
up_skips_first_row(pos) == IF pos_y(pos) > 1 THEN {num_sub(pos, N)} ELSE {}

up(pos) == IF pos_y(pos) > 0 THEN {num_sub(pos, N)} ELSE {}

down(pos) == IF pos_y(pos) < N - 1 THEN {num_add(pos, N)} ELSE {}

---------------------------------------------------------------------------
(* Board: two bits per cell, cells[2*i] = occupied, cells[2*i+1] = black.  *)

board_index(pos) == 2 * pos

board_new == [i \in 0 .. (2 * NumCells - 1) |-> FALSE]

\* Mutant: the colour bit is set for White instead of Black.
board_set_bits_inverts_colour(cells, index, value) ==
    [cells EXCEPT ![index] = (value # NoPlayer),
                  ![index + 1] = (value = "White")]

board_set_bits(cells, index, value) ==
    [cells EXCEPT ![index] = (value # NoPlayer),
                  ![index + 1] = (value = "Black")]

\* Mutant: a cell that holds a stone is left as it is.
board_set_keeps_stone(cells, pos, value) ==
    IF cells[board_index(pos)]
    THEN cells
    ELSE board_set_bits(cells, board_index(pos), value)

board_set(cells, pos, value) == board_set_bits(cells, board_index(pos), value)

\* Mutant: the colour bit is read instead of the occupied bit.
is_occupied_reads_colour_bit(cells, pos) == cells[board_index(pos) + 1]

is_occupied(cells, pos) == cells[board_index(pos)]

\* Index<Pos> for Board: decode the two bits of a cell.
board_get(cells, pos) ==
    IF cells[board_index(pos)]
    THEN IF cells[board_index(pos) + 1] THEN "Black" ELSE "White"
    ELSE NoPlayer

\* Mutant: the cell is written before the occupied check.
set_if_empty_writes_first(cells, pos, value) ==
    [result |-> IF is_occupied(cells, pos) THEN "CellOccupied" ELSE "Ok",
     cells |-> board_set_bits(cells, board_index(pos), value)]

\* Result<(), PlaceStoneError> together with the board it leaves.
set_if_empty(cells, pos, value) ==
    IF is_occupied(cells, pos)
    THEN [result |-> "CellOccupied", cells |-> cells]
    ELSE [result |-> "Ok", cells |-> board_set_bits(cells, board_index(pos), value)]

---------------------------------------------------------------------------
(* The text of a board: a sequence of characters.  The two stone symbols   *)
(* are named by their code points, U+25CB WHITE CIRCLE and U+25CF BLACK    *)
(* CIRCLE.                                                                 *)

WhiteCircle == "U+25CB"

BlackCircle == "U+25CF"

\* The characters char::is_whitespace accepts, as far as the texts use them.
Whitespace == {" ", "\n"}

\* Mutant: at most one whitespace character is skipped.
trim_one_whitespace(input) ==
    IF input # <<>> /\ Head(input) \in Whitespace THEN Tail(input) ELSE input

RECURSIVE trim_whitespaces(_)
trim_whitespaces(input) ==
    IF input # <<>> /\ Head(input) \in Whitespace
    THEN trim_whitespaces(Tail(input))
    ELSE input

\* The two loops of Board::from_str from cell number index on, and the test
\* for characters after the board; index = y*N + x.  The Result is Ok with
\* the board or Err with the message.
RECURSIVE from_str_loop(_, _, _)
from_str_loop(cells, input, index) ==
    IF index = NumCells
    THEN IF trim_whitespaces(input) # <<>>
         THEN [ok |-> FALSE, error |-> "extra characters found after board"]
         ELSE [ok |-> TRUE, board |-> cells]
    ELSE LET trimmed == trim_whitespaces(input)
             char == IF trimmed = <<>> THEN "end of input" ELSE Head(trimmed)
             rest == IF trimmed = <<>> THEN <<>> ELSE Tail(trimmed)
             pos == from_xy(index % N, index \div N)
         IN IF char = "_"
            THEN from_str_loop(board_set(cells, pos, NoPlayer), rest, index + 1)
            ELSE IF char = WhiteCircle
            THEN from_str_loop(board_set(cells, pos, "Black"), rest, index + 1)
            ELSE IF char = BlackCircle
            THEN from_str_loop(board_set(cells, pos, "White"), rest, index + 1)
            ELSE [ok |-> FALSE, error |-> "expected a cell"]

from_str(input) == from_str_loop(board_new, input, 0)

\* Debug for Board: what the inner loop writes for one cell.
fmt_cell(cells, pos) ==
    IF board_get(cells, pos) = "Black" THEN <<BlackCircle, " ">>
    ELSE IF board_get(cells, pos) = "White" THEN <<WhiteCircle, " ">>
    ELSE <<"_", " ">>

\* Debug for Board: the rows from cell number index on.
RECURSIVE fmt_loop(_, _)
fmt_loop(cells, index) ==
    IF index = NumCells
    THEN <<>>
    ELSE fmt_cell(cells, from_xy(index % N, index \div N))
         \o (IF index % N = N - 1 THEN <<"\n">> ELSE <<>>)
         \o fmt_loop(cells, index + 1)

\* Debug for Board: the text written for a board.
fmt(cells) ==
    <<"B", "o", "a", "r", "d", "(", "\n">> \o fmt_loop(cells, 0) \o <<")", "\n">>

---------------------------------------------------------------------------
(* UnionFindAlgorithm: groups[i] is the parent of position i.              *)

union_find_new == [i \in all_positions |-> 0]

\* Mutant: the position is made its own parent instead of the root's child.
add_to_group_ignores_root(uf, pos, group_root) ==
    [groups |-> [uf.groups EXCEPT ![pos] = pos],
     ok |-> uf.ok /\ group_root <= pos]

\* add_to_group; a failed assertion leaves a parent larger than the node,
\* which the record's ok field reports.
add_to_group(uf, pos, group_root) ==
    [groups |-> [uf.groups EXCEPT ![pos] = group_root],
     ok |-> uf.ok /\ group_root <= pos]

\* find_group_root up to its loop: the three locals.
find_enter(groups, current_pos) ==
    [current_pos |-> current_pos,
     parent_pos |-> groups[current_pos],
     grandparent_pos |-> groups[groups[current_pos]]]

\* Mutant: the node is made a root instead of a child of its grandparent.
find_step_cuts_node(groups, at) ==
    LET split == [groups EXCEPT ![at.current_pos] = at.current_pos]
    IN [groups |-> split,
        at |-> [current_pos |-> at.parent_pos,
                parent_pos |-> at.grandparent_pos,
                grandparent_pos |-> split[at.grandparent_pos]]]

\* Mutant: the parent is replaced but the walk does not move on.
find_step_stays(groups, at) ==
    LET split == [groups EXCEPT ![at.current_pos] = at.grandparent_pos]
    IN [groups |-> split,
        at |-> [current_pos |-> at.current_pos,
                parent_pos |-> at.parent_pos,
                grandparent_pos |-> split[at.parent_pos]]]

\* One turn of the loop of find_group_root: the pointer write and the move
\* of the three locals.
find_step(groups, at) ==
    LET split == [groups EXCEPT ![at.current_pos] = at.grandparent_pos]
    IN [groups |-> split,
        at |-> [current_pos |-> at.parent_pos,
                parent_pos |-> at.grandparent_pos,
                grandparent_pos |-> split[at.grandparent_pos]]]

RECURSIVE find_loop(_, _, _, _)
find_loop(groups, current_pos, parent_pos, grandparent_pos) ==
    IF parent_pos = current_pos
    THEN [groups |-> groups, root |-> current_pos]
    ELSE LET split == [groups EXCEPT ![current_pos] = grandparent_pos]
         IN find_loop(split, parent_pos, grandparent_pos, split[grandparent_pos])

find_group_root(groups, current_pos) ==
    find_loop(groups, current_pos, groups[current_pos], groups[groups[current_pos]])

\* Mutant: the root with the larger index survives.
merge_groups_larger_survives(groups, lhs_group_root, rhs_group_root) ==
    IF lhs_group_root >= rhs_group_root
    THEN [groups |-> [groups EXCEPT ![rhs_group_root] = lhs_group_root],
          root |-> lhs_group_root]
    ELSE [groups |-> [groups EXCEPT ![lhs_group_root] = rhs_group_root],
          root |-> rhs_group_root]

\* Mutant: the root of the cell to the left always survives.
merge_groups_lhs_survives(groups, lhs_group_root, rhs_group_root) ==
    [groups |-> [groups EXCEPT ![rhs_group_root] = lhs_group_root],
     root |-> lhs_group_root]

\* Mutant: the root of the cell above always survives.
merge_groups_rhs_survives(groups, lhs_group_root, rhs_group_root) ==
    [groups |-> [groups EXCEPT ![lhs_group_root] = rhs_group_root],
     root |-> rhs_group_root]

merge_groups(groups, lhs_group_root, rhs_group_root) ==
    IF lhs_group_root <= rhs_group_root
    THEN [groups |-> [groups EXCEPT ![rhs_group_root] = lhs_group_root],
          root |-> lhs_group_root]
    ELSE [groups |-> [groups EXCEPT ![lhs_group_root] = rhs_group_root],
          root |-> rhs_group_root]

RECURSIVE finalize_loop(_, _, _, _)
finalize_loop(groups, ids, current_group_number, index) ==
    IF index = NumCells
    THEN [pos_to_group |-> ids, num_groups |-> current_group_number]
    ELSE LET found == find_group_root(groups, index)
         IN IF found.root = index
            THEN finalize_loop(found.groups,
                               [ids EXCEPT ![index] = current_group_number],
                               num_add(current_group_number, 1), index + 1)
            ELSE finalize_loop(found.groups,
                               [ids EXCEPT ![index] = ids[found.root]],
                               current_group_number, index + 1)

\* Mutant: the first group number handed out is 1.
finalize_counts_from_one(groups) ==
    finalize_loop(groups, [i \in all_positions |-> 0], 1, 0)

finalize(groups) == finalize_loop(groups, [i \in all_positions |-> 0], 0, 0)

---------------------------------------------------------------------------
(* group_connected_stones: one row-major pass, then finalize.              *)

\* The body of the loop over all_positions for one current_pos.
group_step(uf, cells, current_pos) ==
    LET current_stone == board_get(cells, current_pos)
        left_pos == left(current_pos)
        top_pos == up(current_pos)
        matches_left_stone == \E l \in left_pos : current_stone = board_get(cells, l)
        matches_top_stone == \E t \in top_pos : current_stone = board_get(cells, t)
        l == CHOOSE p \in left_pos : TRUE
        t == CHOOSE p \in top_pos : TRUE
    IN IF ~matches_left_stone /\ ~matches_top_stone
       THEN add_to_group(uf, current_pos, current_pos)
       ELSE IF matches_left_stone /\ ~matches_top_stone
       THEN LET left_group == find_group_root(uf.groups, l)
            IN add_to_group([uf EXCEPT !.groups = left_group.groups],
                            current_pos, left_group.root)
       ELSE IF ~matches_left_stone /\ matches_top_stone
       THEN LET top_group == find_group_root(uf.groups, t)
            IN add_to_group([uf EXCEPT !.groups = top_group.groups],
                            current_pos, top_group.root)
       ELSE LET left_group == find_group_root(uf.groups, l)
                top_group == find_group_root(left_group.groups, t)
            IN IF left_group.root = top_group.root
               THEN add_to_group([uf EXCEPT !.groups = top_group.groups],
                                 current_pos, left_group.root)
               ELSE LET merged == merge_groups(top_group.groups,
                                               left_group.root, top_group.root)
                    IN add_to_group([uf EXCEPT !.groups = merged.groups],
                                    current_pos, merged.root)

RECURSIVE group_loop(_, _, _)
group_loop(uf, cells, current_pos) ==
    IF current_pos = NumCells
    THEN uf
    ELSE group_loop(group_step(uf, cells, current_pos), cells, current_pos + 1)

group_connected_stones(cells) ==
    finalize(group_loop([groups |-> union_find_new, ok |-> TRUE], cells, 0).groups)

---------------------------------------------------------------------------
(* Analysis: the grouping plus one GroupInfo per group.                    *)

\* enum GroupInfo.
Unknown(liberties) ==
    [kind |-> "Unknown", owner |-> NoPlayer, liberties |-> liberties]

PlayerGroup(owner, liberties) ==
    [kind |-> "PlayerGroup", owner |-> owner, liberties |-> liberties]

EmptyStonesGroup ==
    [kind |-> "EmptyStonesGroup", owner |-> NoPlayer, liberties |-> 0]

\* What is left of an entry once assert_eq!(owner, actual_owner) has failed.
OwnerAssertFailed ==
    [kind |-> "OwnerAssertFailed", owner |-> NoPlayer, liberties |-> 0]

\* The groups an empty cell gives a liberty to: its own and its neighbours'.
groups_to_add_liberty_to(pos_to_group, pos) ==
    {pos_to_group[pos]}
        \cup {pos_to_group[n] : n \in left(pos) \cup up(pos) \cup right(pos) \cup down(pos)}

\* Mutant: an empty cell gives a group one liberty for every side on which
\* it touches the group.
liberties_and_owners_step_counts_sides(info, cells, pos_to_group, pos) ==
    LET group == pos_to_group[pos]
        owner == board_get(cells, pos)
        sides(g) == Cardinality({n \in left(pos) \cup up(pos) \cup right(pos) \cup down(pos) :
                                    pos_to_group[n] = g})
    IN IF owner # NoPlayer
       THEN IF info[group].kind = "EmptyStonesGroup"
            THEN [info EXCEPT ![group] = PlayerGroup(owner, 0)]
            ELSE IF info[group].kind = "Unknown"
            THEN [info EXCEPT ![group] = PlayerGroup(owner, info[group].liberties)]
            ELSE IF info[group].kind = "PlayerGroup" /\ info[group].owner = owner
            THEN info
            ELSE [info EXCEPT ![group] = OwnerAssertFailed]
       ELSE LET cleared == [info EXCEPT ![group] = EmptyStonesGroup]
            IN [g \in DOMAIN info |->
                   IF cleared[g].kind \in {"Unknown", "PlayerGroup"}
                   THEN [cleared[g] EXCEPT !.liberties = num_add(@, sides(g))]
                   ELSE cleared[g]]

\* Mutant: an empty cell gives its liberties but does not mark its own group
\* as a group of empty cells.
liberties_and_owners_step_keeps_unknown(info, cells, pos_to_group, pos) ==
    LET group == pos_to_group[pos]
        owner == board_get(cells, pos)
    IN IF owner # NoPlayer
       THEN IF info[group].kind = "EmptyStonesGroup"
            THEN [info EXCEPT ![group] = PlayerGroup(owner, 0)]
            ELSE IF info[group].kind = "Unknown"
            THEN [info EXCEPT ![group] = PlayerGroup(owner, info[group].liberties)]
            ELSE IF info[group].kind = "PlayerGroup" /\ info[group].owner = owner
            THEN info
            ELSE [info EXCEPT ![group] = OwnerAssertFailed]
       ELSE LET touched == groups_to_add_liberty_to(pos_to_group, pos)
            IN [g \in DOMAIN info |->
                   IF g \in touched /\ info[g].kind \in {"Unknown", "PlayerGroup"}
                   THEN [info[g] EXCEPT !.liberties = num_add(@, 1)]
                   ELSE info[g]]

\* The body of the loop of _liberties_and_owners_of_groups for one pos.
liberties_and_owners_step(info, cells, pos_to_group, pos) ==
    LET group == pos_to_group[pos]
        owner == board_get(cells, pos)
    IN IF owner # NoPlayer
       THEN IF info[group].kind = "EmptyStonesGroup"
            THEN [info EXCEPT ![group] = PlayerGroup(owner, 0)]
            ELSE IF info[group].kind = "Unknown"
            THEN [info EXCEPT ![group] = PlayerGroup(owner, info[group].liberties)]
            ELSE IF info[group].kind = "PlayerGroup" /\ info[group].owner = owner
            THEN info
            ELSE [info EXCEPT ![group] = OwnerAssertFailed]
       ELSE LET cleared == [info EXCEPT ![group] = EmptyStonesGroup]
                touched == groups_to_add_liberty_to(pos_to_group, pos)
            IN [g \in DOMAIN info |->
                   IF g \in touched /\ cleared[g].kind \in {"Unknown", "PlayerGroup"}
                   THEN [cleared[g] EXCEPT !.liberties = num_add(@, 1)]
                   ELSE cleared[g]]

RECURSIVE liberties_and_owners_loop(_, _, _, _)
liberties_and_owners_loop(info, cells, pos_to_group, pos) ==
    IF pos = NumCells
    THEN info
    ELSE liberties_and_owners_loop(
             liberties_and_owners_step(info, cells, pos_to_group, pos),
             cells, pos_to_group, pos + 1)

liberties_and_owners_of_groups(cells, grouped) ==
    liberties_and_owners_loop([g \in 0 .. (grouped.num_groups - 1) |-> Unknown(0)],
                              cells, grouped.pos_to_group, 0)

analyze(cells) ==
    LET grouped == group_connected_stones(cells)
    IN [pos_to_group |-> grouped.pos_to_group,
        group_info |-> liberties_and_owners_of_groups(cells, grouped)]

\* Mutant: the group information is left as it is.
update_group_info_keeps_info(analysis, cells) == analysis

\* Analysis::update_group_info: the liberties and owners are recomputed for
\* the board given, the grouping is kept.
update_group_info(analysis, cells) ==
    [pos_to_group |-> analysis.pos_to_group,
     group_info |-> liberties_and_owners_of_groups(
                        cells,
                        [pos_to_group |-> analysis.pos_to_group,
                         num_groups |-> Cardinality(DOMAIN analysis.group_info)])]

\* Mutant: the cell below is not looked at.
find_neighboring_groups_skips_down(analysis, pos) ==
    {analysis.pos_to_group[n] : n \in up(pos) \cup left(pos) \cup right(pos)}
        \ {analysis.pos_to_group[pos]}

\* The groups of the cells next to pos, other than the group of pos.
find_neighboring_groups(analysis, pos) ==
    {analysis.pos_to_group[n] : n \in up(pos) \cup left(pos) \cup right(pos) \cup down(pos)}
        \ {analysis.pos_to_group[pos]}

\* Analysis::capture_group, the body of its loop for one pos.  `removed` is
\* the sequence of the positions on_remove was called with; `panicked` tells
\* that the panic! or the unreachable! was met.
capture_group_step(capture, group_to_capture, pos) ==
    IF capture.analysis.pos_to_group[pos] # group_to_capture
    THEN capture
    ELSE LET neighbors == find_neighboring_groups(capture.analysis, pos)
             info == capture.analysis.group_info
         IN [analysis |->
                 [capture.analysis EXCEPT !.group_info =
                     [g \in DOMAIN info |->
                         IF g \in neighbors /\ info[g].kind = "PlayerGroup"
                         THEN [info[g] EXCEPT !.liberties = num_add(@, 1)]
                         ELSE info[g]]],
             removed |-> Append(capture.removed, pos),
             panicked |-> capture.panicked
                              \/ \E g \in neighbors : info[g].kind # "PlayerGroup"]

RECURSIVE capture_group_loop(_, _, _)
capture_group_loop(capture, group_to_capture, pos) ==
    IF pos = NumCells
    THEN capture
    ELSE capture_group_loop(capture_group_step(capture, group_to_capture, pos),
                            group_to_capture, pos + 1)

\* Analysis::capture_group.
capture_group(analysis, group_to_capture) ==
    capture_group_loop(
        [analysis |-> [analysis EXCEPT !.group_info[group_to_capture] = EmptyStonesGroup],
         removed |-> <<>>,
         panicked |-> FALSE],
        group_to_capture, 0)

---------------------------------------------------------------------------
(* Game: board, current_player, num_captured_by, analysis.                 *)

\* Mutant: the first turn is given to White.
game_new_white_first ==
    [board |-> board_new,
     current_player |-> "White",
     num_captured_by |-> [p \in Player |-> 0],
     analysis |-> analyze(board_new)]

game_new ==
    [board |-> board_new,
     current_player |-> "Black",
     num_captured_by |-> [p \in Player |-> 0],
     analysis |-> analyze(board_new)]

\* Game::_capture_group: every cell of the group is set to None; the result
\* is the board and the number of cells cleared.
\* Mutant: the first stone of the group is left on the board.
game_capture_group_keeps_first_stone(game, group_to_capture) ==
    LET members == {pos \in all_positions :
                        game.analysis.pos_to_group[pos] = group_to_capture}
        first == CHOOSE pos \in members : \A q \in members : pos <= q
    IN [game |-> [game EXCEPT !.board =
                      [i \in DOMAIN game.board |->
                          IF (i \div 2) \in members \ {first}
                          THEN FALSE
                          ELSE game.board[i]]],
        num_captured |-> Cardinality(members) % IndexModulus]

game_capture_group(game, group_to_capture) ==
    LET members == {pos \in all_positions :
                        game.analysis.pos_to_group[pos] = group_to_capture}
    IN [game |-> [game EXCEPT !.board =
                      [i \in DOMAIN game.board |->
                          IF (i \div 2) \in members THEN FALSE ELSE game.board[i]]],
        num_captured |-> Cardinality(members) % IndexModulus]

\* Mutant: the groups without liberties of either owner are captured.
groups_to_capture_any_owner(game, player) ==
    {g \in DOMAIN game.analysis.group_info :
        /\ game.analysis.group_info[g].kind = "PlayerGroup"
        /\ game.analysis.group_info[g].liberties = 0}

\* Mutant: the opponent's groups with one liberty are captured as well.
groups_to_capture_in_atari(game, player) ==
    {g \in DOMAIN game.analysis.group_info :
        /\ game.analysis.group_info[g].kind = "PlayerGroup"
        /\ game.analysis.group_info[g].owner = other_player(player)
        /\ game.analysis.group_info[g].liberties <= 1}

\* The groups `player` captures: the opponent's groups without liberties.
groups_to_capture(game, player) ==
    {g \in DOMAIN game.analysis.group_info :
        /\ game.analysis.group_info[g].kind = "PlayerGroup"
        /\ game.analysis.group_info[g].owner = other_player(player)
        /\ game.analysis.group_info[g].liberties = 0}

RECURSIVE capture_loop(_, _, _, _)
capture_loop(game, player, groups, group) ==
    IF group = Cardinality(DOMAIN game.analysis.group_info)
    THEN game
    ELSE IF group \in groups
    THEN LET captured == game_capture_group(game, group)
         IN capture_loop(
                [captured.game EXCEPT !.num_captured_by[player] =
                    num_add(@, captured.num_captured)],
                player, groups, group + 1)
    ELSE capture_loop(game, player, groups, group + 1)

\* Mutant: the stones are credited to the owner of the captured groups.
player_takes_prisoners_credits_owner(game, player) ==
    capture_loop(game, other_player(player), groups_to_capture(game, player), 0)

player_takes_prisoners(game, player) ==
    capture_loop(game, player, groups_to_capture(game, player), 0)

\* Mutant: the mover's own groups are tested before the opponent's.
take_prisoners_own_first(game) ==
    LET first == player_takes_prisoners(game, other_player(game.current_player))
        refreshed == [first EXCEPT !.analysis = update_group_info(@, first.board)]
    IN player_takes_prisoners(refreshed, game.current_player)

\* Mutant: the liberties are not refreshed between the two captures.
take_prisoners_stale_liberties(game) ==
    LET first == player_takes_prisoners(game, game.current_player)
    IN player_takes_prisoners(first, other_player(game.current_player))

\* Mutant: no group is captured.
take_prisoners_captures_nothing(game) == game

\* Mutant: only the opponent's groups are captured.
take_prisoners_opponent_only(game) ==
    player_takes_prisoners(game, game.current_player)

take_prisoners(game) ==
    LET first == player_takes_prisoners(game, game.current_player)
        refreshed == [first EXCEPT !.analysis = update_group_info(@, first.board)]
    IN player_takes_prisoners(refreshed, other_player(game.current_player))

update_analysis(game) == [game EXCEPT !.analysis = analyze(game.board)]

\* Game::from_board (the constructor the tests use).
from_board(cells, player, captured) ==
    [board |-> cells,
     current_player |-> player,
     num_captured_by |-> captured,
     analysis |-> analyze(cells)]

\* Mutant: a placement that would leave the board as it was before the call
\* is refused as a repetition.
place_stone_refuses_repetition(game, pos) ==
    LET written == set_if_empty(game.board, pos, game.current_player)
        stored == [game EXCEPT !.board = written.cells]
    IN IF written.result = "CellOccupied"
       THEN [game |-> stored, result |-> "CellOccupied", placed |-> stored]
       ELSE LET placed == update_analysis(stored)
                taken == take_prisoners(placed)
            IN IF taken.board = game.board
               THEN [game |-> game, result |-> "CellOccupied", placed |-> game]
               ELSE [game |-> [taken EXCEPT !.current_player = other_player(@)],
                     result |-> "Ok",
                     placed |-> placed]

\* Game::place_stone: the game it leaves and the Result it returns; placed
\* is the game between _update_analysis and _take_prisoners.
place_stone(game, pos) ==
    LET written == set_if_empty(game.board, pos, game.current_player)
        stored == [game EXCEPT !.board = written.cells]
    IN IF written.result = "CellOccupied"
       THEN [game |-> stored, result |-> "CellOccupied", placed |-> stored]
       ELSE LET placed == update_analysis(stored)
                taken == take_prisoners(placed)
            IN [game |-> [taken EXCEPT !.current_player = other_player(@)],
                result |-> "Ok",
                placed |-> placed]

\* Mutant: the turn is not handed over.
pass_turn_keeps_player(game) == game

\* Mutant: a pass rebuilds the analysis as a placement does.
pass_turn_rebuilds_analysis(game) ==
    update_analysis([game EXCEPT !.current_player = other_player(@)])

pass_turn(game) == [game EXCEPT !.current_player = other_player(@)]

---------------------------------------------------------------------------
(* The state machine: one Game, driven by calls of place_stone and         *)
(* pass_turn.                                                              *)

VARIABLES
    board,              \* Game::board
    current_player,     \* Game::current_player
    num_captured_by,    \* Game::num_captured_by
    analysis,           \* Game::analysis
    last,               \* the last call: its name, argument, result and
                        \* what it observed on the way
    moves,              \* the number of calls made so far
    run                 \* the call of group_connected_stones that is followed
                        \* step by step: its UnionFindAlgorithm, its locals
                        \* and its position in the code

vars == <<board, current_player, num_captured_by, analysis, last, moves, run>>

Game ==
    [board |-> board,
     current_player |-> current_player,
     num_captured_by |-> num_captured_by,
     analysis |-> analysis]

\* The pos recorded for a call that takes none.
NoPos == NumCells

\* No call of group_connected_stones is followed step by step.
NotRunning == [pc |-> "none"]

\* The record of a call that places no stone.
Called(op) ==
    [op |-> op, pos |-> NoPos, result |-> "Ok", liberties |-> 0,
     captured |-> [p \in Player |-> 0]]

Init ==
    /\ board = game_new.board
    /\ current_player = game_new.current_player
    /\ num_captured_by = game_new.num_captured_by
    /\ analysis = game_new.analysis
    /\ last = Called("new")
    /\ moves = 0
    /\ run = NotRunning

\* The liberties the group of the stone just written at pos has in the
\* analysis of _update_analysis, before any capture.
liberties_at_placement(placed, pos) ==
    placed.analysis.group_info[placed.analysis.pos_to_group[pos]].liberties

\* The call place_stone(pos) on the Game of the state.
CallPlaceStone(pos) ==
    \E call \in {place_stone(Game, pos)} :
        /\ board' = call.game.board
        /\ current_player' = call.game.current_player
        /\ num_captured_by' = call.game.num_captured_by
        /\ analysis' = call.game.analysis
        /\ last' = [op |-> "place_stone", pos |-> pos, result |-> call.result,
                    liberties |-> IF call.result = "Ok"
                                  THEN liberties_at_placement(call.placed, pos)
                                  ELSE 0,
                    captured |-> [p \in Player |->
                                     num_sub(call.game.num_captured_by[p],
                                             num_captured_by[p])]]
        /\ UNCHANGED run

\* The call pass_turn() on the Game of the state.
CallPassTurn ==
    /\ \E after \in {pass_turn(Game)} :
          /\ board' = after.board
          /\ current_player' = after.current_player
          /\ num_captured_by' = after.num_captured_by
          /\ analysis' = after.analysis
    /\ last' = Called("pass_turn")
    /\ UNCHANGED run

PlaceStone(pos) ==
    /\ moves < MaxMoves
    /\ CallPlaceStone(pos)
    /\ moves' = moves + 1

PassTurn ==
    /\ moves < MaxMoves
    /\ CallPassTurn
    /\ moves' = moves + 1

Next ==
    \/ \E pos \in all_positions : PlaceStone(pos)
    \/ PassTurn

\* Every game played from Game::new, up to MaxMoves calls.
Spec == Init /\ [][Next]_vars

---------------------------------------------------------------------------
(* One call on a Game built by from_board from any position of up to       *)
(* MaxStones stones, with either player to move.                           *)

MaxStones == 5

\* The cells Board::set leaves after writing values[pos] at every pos.
board_of(values) ==
    [i \in 0 .. (2 * NumCells - 1) |->
        IF i % 2 = 0
        THEN values[i \div 2] # NoPlayer
        ELSE values[i \div 2] = "Black"]

Positions(stones) ==
    {values \in [all_positions -> Player \cup {NoPlayer}] :
        Cardinality({pos \in all_positions : values[pos] # NoPlayer}) <= stones}

InitFromBoard ==
    \E values \in Positions(MaxStones), player \in Player :
        \E game \in {from_board(board_of(values), player, [p \in Player |-> 0])} :
            /\ board = game.board
            /\ current_player = game.current_player
            /\ num_captured_by = game.num_captured_by
            /\ analysis = game.analysis
            /\ last = Called("from_board")
            /\ moves = 0
            /\ run = NotRunning

NextFromBoard ==
    \/ last.op = "from_board" /\ \E pos \in all_positions : PlaceStone(pos)
    \/ last.op = "from_board" /\ PassTurn

SpecFromBoard == InitFromBoard /\ [][NextFromBoard]_vars

---------------------------------------------------------------------------
(* Games of any length from Game::new in which the stones are placed on    *)
(* the corner (0,0) and the two cells next to it.  The calls are not       *)
(* counted; the prisoner counts are integers of IndexBits bits, so the     *)
(* states are finitely many.                                               *)

CornerPositions == {from_xy(0, 0), from_xy(1, 0), from_xy(0, 1)}

PlaceStoneInCorner(pos) ==
    /\ CallPlaceStone(pos)
    /\ UNCHANGED moves

PassTurnInCorner ==
    /\ CallPassTurn
    /\ UNCHANGED moves

NextInCorner ==
    \/ \E pos \in CornerPositions : PlaceStoneInCorner(pos)
    \/ PassTurnInCorner

SpecInCorner == Init /\ [][NextInCorner]_vars

---------------------------------------------------------------------------
(* Every board: built from Board::new by Board::set, one stone at a time,  *)
(* and analysed by Analysis::analyze after each stone.                     *)

InitAnalysis ==
    /\ board = board_new
    /\ current_player = "Black"
    /\ num_captured_by = [p \in Player |-> 0]
    /\ analysis = analyze(board_new)
    /\ last = Called("analyze")
    /\ moves = 0
    /\ run = NotRunning

SetAndAnalyze(pos, value) ==
    /\ ~is_occupied(board, pos)
    /\ board' = board_set(board, pos, value)
    /\ analysis' = analyze(board')
    /\ last' = Called("analyze")
    /\ UNCHANGED <<current_player, num_captured_by, moves, run>>

NextAnalysis == \E pos \in all_positions, value \in Player : SetAndAnalyze(pos, value)

SpecAnalysis == InitAnalysis /\ [][NextAnalysis]_vars

---------------------------------------------------------------------------
(* A Board of its own: from Board::new, any cell is overwritten with any   *)
(* value by Board::set and read back through Index<Pos>.                   *)

InitBoard ==
    /\ board = board_new
    /\ current_player = "Black"
    /\ num_captured_by = [p \in Player |-> 0]
    /\ analysis = analyze(board_new)
    /\ last = [op |-> "new"]
    /\ moves = 0
    /\ run = NotRunning

\* board.set(pos, value), then the read board[pos].
SetAndRead(pos, value) ==
    /\ board' = board_set(board, pos, value)
    /\ last' = [op |-> "set", pos |-> pos, value |-> value,
                read |-> board_get(board', pos)]
    /\ UNCHANGED <<current_player, num_captured_by, analysis, moves, run>>

NextBoard ==
    \E pos \in all_positions, value \in Player \cup {NoPlayer} : SetAndRead(pos, value)

SpecBoard == InitBoard /\ [][NextBoard]_vars

---------------------------------------------------------------------------
(* Board texts: a text is parsed by Board::from_str; the board at hand is  *)
(* written as text by its Debug implementation and that text is parsed in  *)
(* turn.  The texts are grids of N*N cell symbols holding up to            *)
(* MaxTextStones circles, with one more character put in at any place, and *)
(* the same grids laid out in rows and cut off after any character.        *)

MaxTextStones == 3

Tokens == {"_", WhiteCircle, BlackCircle}

\* The characters the texts are made of; "x" stands for any other character.
Chars == Tokens \cup Whitespace \cup {"x"}

\* The grids of N*N cell symbols that hold up to `stones` circles.
Grids(stones) ==
    {grid \in [1 .. NumCells -> Tokens] :
        Cardinality({i \in 1 .. NumCells : grid[i] # "_"}) <= stones}

\* The text with char put in after its first `after` characters.
Insert(text, after, char) ==
    SubSeq(text, 1, after) \o <<char>> \o SubSeq(text, after + 1, Len(text))

\* The grid in rows: a space after every symbol, a line feed after every row.
InRows(grid) ==
    [i \in 1 .. (NumCells * 2 + N) |->
        LET row == (i - 1) \div (2 * N + 1)
            col == (i - 1) % (2 * N + 1)
        IN IF col = 2 * N THEN "\n"
           ELSE IF col % 2 = 1 THEN " "
           ELSE grid[row * N + (col \div 2) + 1]]

Texts(stones) ==
    {Insert(grid, after, char) :
        grid \in Grids(stones), after \in 0 .. NumCells, char \in Chars}
        \cup {SubSeq(InRows(grid), 1, len) :
                  grid \in Grids(stones), len \in 0 .. (NumCells * 2 + N)}

InitText ==
    /\ board = board_new
    /\ current_player = "Black"
    /\ num_captured_by = [p \in Player |-> 0]
    /\ analysis = analyze(board_new)
    /\ last \in {[op |-> "text", text |-> text] : text \in Texts(MaxTextStones)}
    /\ moves = 0
    /\ run = NotRunning

\* Board::from_str on the text at hand; an Ok result is the new board.
FromStr ==
    /\ last.op \in {"text", "fmt"}
    /\ \E result \in {from_str(last.text)} :
          /\ board' = IF result.ok THEN result.board ELSE board
          /\ last' = [op |-> "from_str", text |-> last.text, result |-> result]
    /\ UNCHANGED <<current_player, num_captured_by, analysis, moves, run>>

\* format!("{:?}", board) on the board at hand.
Fmt ==
    /\ last.op = "from_str"
    /\ last' = [op |-> "fmt", text |-> fmt(board)]
    /\ UNCHANGED <<board, current_player, num_captured_by, analysis, moves, run>>

NextText == FromStr \/ Fmt

SpecText == InitText /\ [][NextText]_vars

---------------------------------------------------------------------------
(* group_connected_stones step by step, on any board of up to MaxStones    *)
(* stones: a step is one add_to_group, one merge_groups, one turn of the   *)
(* loop of find_group_root, or the control flow between them.              *)

\* The locals of a find_group_root that is not running.
NoFind == [current_pos |-> 0, parent_pos |-> 0, grandparent_pos |-> 0]

\* The state at the head of the loop over all_positions.
RunStart ==
    [pc |-> "scan",
     uf |-> [groups |-> union_find_new, ok |-> TRUE],
     current_pos |-> 0,           \* the loop variable of group_connected_stones
     left_group |-> 0,            \* the local left_group
     top_group |-> 0,             \* the local top_group
     group_for_current |-> 0,     \* the local group_for_current
     find |-> NoFind,             \* the locals of find_group_root
     arg |-> 0,                   \* the argument of find_group_root
     entry |-> union_find_new,    \* the parents when find_group_root was called
     ret |-> "none",              \* the call site find_group_root returns to
     index |-> 0,                 \* the loop variable of finalize
     ids |-> [i \in all_positions |-> 0],   \* the local groups of finalize
     current_group_number |-> 0]

InitGrouping ==
    /\ \E values \in Positions(MaxStones) : board = board_of(values)
    /\ current_player = "Black"
    /\ num_captured_by = [p \in Player |-> 0]
    /\ analysis = analyze(board_new)
    /\ last = Called("group_connected_stones")
    /\ moves = 0
    /\ run = RunStart

\* The call find_group_root(pos) made from the call site ret.
CallFind(pos, ret) ==
    [run EXCEPT !.pc = "find",
                !.find = find_enter(run.uf.groups, pos),
                !.arg = pos,
                !.entry = run.uf.groups,
                !.ret = ret]

\* The head of the loop body: the cell is compared with its left and upper
\* neighbours and the first find_group_root, if any, is called.
ScanCell ==
    /\ run.pc = "scan"
    /\ run.current_pos < NumCells
    /\ LET current_stone == board_get(board, run.current_pos)
           left_pos == left(run.current_pos)
           top_pos == up(run.current_pos)
           matches_left_stone == \E l \in left_pos : current_stone = board_get(board, l)
           matches_top_stone == \E t \in top_pos : current_stone = board_get(board, t)
       IN run' = IF ~matches_left_stone /\ ~matches_top_stone
                 THEN [run EXCEPT !.pc = "add", !.group_for_current = run.current_pos]
                 ELSE IF matches_left_stone /\ ~matches_top_stone
                 THEN CallFind(CHOOSE l \in left_pos : TRUE, "left")
                 ELSE IF ~matches_left_stone /\ matches_top_stone
                 THEN CallFind(CHOOSE t \in top_pos : TRUE, "top")
                 ELSE CallFind(CHOOSE l \in left_pos : TRUE, "left of both")
    /\ UNCHANGED <<board, current_player, num_captured_by, analysis, last, moves>>

\* One turn of the loop of find_group_root.
FindStep ==
    /\ run.pc = "find"
    /\ run.find.parent_pos # run.find.current_pos
    /\ \E step \in {find_step(run.uf.groups, run.find)} :
          run' = [run EXCEPT !.uf.groups = step.groups, !.find = step.at]
    /\ UNCHANGED <<board, current_player, num_captured_by, analysis, last, moves>>

\* find_group_root returns current_pos to the scan of the board.
FindReturnToScan ==
    /\ run.pc = "find"
    /\ run.find.parent_pos = run.find.current_pos
    /\ run.ret \in {"left", "top", "left of both", "top of both"}
    /\ LET root == run.find.current_pos
       IN run' = IF run.ret \in {"left", "top"}
                 THEN [run EXCEPT !.pc = "add", !.group_for_current = root]
                 ELSE IF run.ret = "left of both"
                 THEN [CallFind(CHOOSE t \in up(run.current_pos) : TRUE, "top of both")
                          EXCEPT !.left_group = root]
                 ELSE IF run.left_group = root
                 THEN [run EXCEPT !.pc = "add", !.top_group = root,
                                  !.group_for_current = run.left_group]
                 ELSE [run EXCEPT !.pc = "merge", !.top_group = root]
    /\ UNCHANGED <<board, current_player, num_captured_by, analysis, last, moves>>

\* result.merge_groups(left_group, top_group).
Merge ==
    /\ run.pc = "merge"
    /\ \E merged \in {merge_groups(run.uf.groups, run.left_group, run.top_group)} :
          run' = [run EXCEPT !.pc = "add",
                             !.uf.groups = merged.groups,
                             !.group_for_current = merged.root]
    /\ UNCHANGED <<board, current_player, num_captured_by, analysis, last, moves>>

\* result.add_to_group(current_pos, group_for_current) and the step of the
\* loop; a failed assertion ends the call.
Add ==
    /\ run.pc = "add"
    /\ \E added \in {add_to_group(run.uf, run.current_pos, run.group_for_current)} :
          run' = [run EXCEPT !.pc = IF added.ok THEN "scan" ELSE "panicked",
                             !.uf = added,
                             !.current_pos = run.current_pos + 1]
    /\ UNCHANGED <<board, current_player, num_captured_by, analysis, last, moves>>

\* The loop over all_positions is left and finalize is called.
ScanEnd ==
    /\ run.pc = "scan"
    /\ run.current_pos = NumCells
    /\ run' = [run EXCEPT !.pc = "finalize"]
    /\ UNCHANGED <<board, current_player, num_captured_by, analysis, last, moves>>

\* The head of the loop body of finalize: find_group_root(current_pos).
FinalizeCell ==
    /\ run.pc = "finalize"
    /\ run.index < NumCells
    /\ run' = CallFind(run.index, "finalize")
    /\ UNCHANGED <<board, current_player, num_captured_by, analysis, last, moves>>

\* find_group_root returns to finalize, which writes the group number of
\* the position.
FindReturnToFinalize ==
    /\ run.pc = "find"
    /\ run.find.parent_pos = run.find.current_pos
    /\ run.ret = "finalize"
    /\ LET root_of_current_group == run.find.current_pos
       IN run' = IF root_of_current_group = run.index
                 THEN [run EXCEPT !.pc = "finalize",
                                  !.ids[run.index] = run.current_group_number,
                                  !.current_group_number = num_add(@, 1),
                                  !.index = run.index + 1]
                 ELSE [run EXCEPT !.pc = "finalize",
                                  !.ids[run.index] = run.ids[root_of_current_group],
                                  !.index = run.index + 1]
    /\ UNCHANGED <<board, current_player, num_captured_by, analysis, last, moves>>

\* finalize returns the GroupedStones.
FinalizeEnd ==
    /\ run.pc = "finalize"
    /\ run.index = NumCells
    /\ run' = [run EXCEPT !.pc = "done"]
    /\ UNCHANGED <<board, current_player, num_captured_by, analysis, last, moves>>

NextGrouping ==
    \/ ScanCell
    \/ FindStep
    \/ FindReturnToScan
    \/ Merge
    \/ Add
    \/ ScanEnd
    \/ FinalizeCell
    \/ FindReturnToFinalize
    \/ FinalizeEnd

SpecGrouping == InitGrouping /\ [][NextGrouping]_vars

\* The same, with every step that can be taken eventually taken: the call
\* runs on one thread that is never suspended for ever.
SpecGroupingLive == SpecGrouping /\ WF_vars(NextGrouping)

---------------------------------------------------------------------------
(* Analysis::capture_group on the analysis of any board of up to MaxStones *)
(* stones, for any group of stones that has no liberties, with an          *)
(* on_remove that empties the cell on the board, as often as there is such *)
(* a group.                                                                *)

InitCapture ==
    /\ \E values \in Positions(MaxStones) : board = board_of(values)
    /\ current_player = "Black"
    /\ num_captured_by = [p \in Player |-> 0]
    /\ analysis = analyze(board)
    /\ last = [op |-> "analyze"]
    /\ moves = 0
    /\ run = NotRunning

RECURSIVE on_remove(_, _)
\* The calls on_remove(pos) = board.set(pos, None), one after the other.
on_remove(cells, removed) ==
    IF removed = <<>>
    THEN cells
    ELSE on_remove(board_set(cells, Head(removed), NoPlayer), Tail(removed))

CaptureGroup(group) ==
    /\ analysis.group_info[group].kind = "PlayerGroup"
    /\ analysis.group_info[group].liberties = 0
    /\ \E capture \in {capture_group(analysis, group)} :
          /\ analysis' = capture.analysis
          /\ board' = on_remove(board, capture.removed)
          /\ last' = [op |-> "capture_group", group |-> group,
                      removed |-> capture.removed, panicked |-> capture.panicked]
    /\ UNCHANGED <<current_player, num_captured_by, moves, run>>

NextCapture == \E group \in DOMAIN analysis.group_info : CaptureGroup(group)

SpecCapture == InitCapture /\ [][NextCapture]_vars

---------------------------------------------------------------------------
(* A Pos of its own: from Pos::from_xy(x, y) for any coordinates of the    *)
(* board, one of left, right, up and down is called on the position held,  *)
(* which moves to the neighbour returned when there is one.                *)

InitPos ==
    /\ board = board_new
    /\ current_player = "Black"
    /\ num_captured_by = [p \in Player |-> 0]
    /\ analysis = analyze(board_new)
    /\ \E px, py \in 0 .. (N - 1) :
          last = [op |-> "from_xy", pos |-> from_xy(px, py), result |-> {from_xy(px, py)}]
    /\ moves = 0
    /\ run = NotRunning

\* The position held: the neighbour the last call returned, or the position
\* it was called on when it returned None.
held_pos == IF last.result = {} THEN last.pos ELSE CHOOSE q \in last.result : TRUE

CallNeighbour(op, result) ==
    /\ moves < MaxMoves
    /\ last' = [op |-> op, pos |-> held_pos, result |-> result]
    /\ moves' = moves + 1
    /\ UNCHANGED <<board, current_player, num_captured_by, analysis, run>>

CallLeft == CallNeighbour("left", left(held_pos))

CallRight == CallNeighbour("right", right(held_pos))

CallUp == CallNeighbour("up", up(held_pos))

CallDown == CallNeighbour("down", down(held_pos))

NextPos == CallLeft \/ CallRight \/ CallUp \/ CallDown

SpecPos == InitPos /\ [][NextPos]_vars

---------------------------------------------------------------------------
(* sgf_parser: the result of a game.  A text is the sequence of its        *)
(* characters.                                                             *)

\* str::strip_prefix: Some(rest) or None.
strip_prefix(input, prefix) ==
    IF Len(input) >= Len(prefix) /\ SubSeq(input, 1, Len(prefix)) = prefix
    THEN {SubSeq(input, Len(prefix) + 1, Len(input))}
    ELSE {}

Digit == {"0", "1", "2", "3", "4", "5", "6", "7", "8", "9"}

digit_value(char) == CHOOSE n \in 0 .. 9 : <<"0", "1", "2", "3", "4", "5", "6", "7", "8", "9">>[n + 1] = char

\* The number the digits among `chars` spell.
RECURSIVE decimal_digits(_, _)
decimal_digits(chars, value) ==
    IF chars = <<>>
    THEN value
    ELSE decimal_digits(Tail(chars),
                        IF Head(chars) \in Digit
                        THEN value * 10 + digit_value(Head(chars))
                        ELSE value)

\* input.parse::<f32>() on texts made of signs, digits and points: an
\* optional sign, then digits with at most one point among them and at least
\* one digit.  The value is num / scale, negated when `negative`.
parse_f32(input) ==
    LET signed == input # <<>> /\ Head(input) \in {"+", "-"}
        body == IF signed THEN Tail(input) ELSE input
        points == {i \in DOMAIN body : body[i] = "."}
        digits == {i \in DOMAIN body : body[i] \in Digit}
    IN IF \/ digits = {}
          \/ Cardinality(points) > 1
          \/ digits \cup points # DOMAIN body
       THEN [ok |-> FALSE]
       ELSE [ok |-> TRUE,
             negative |-> signed /\ Head(input) = "-",
             num |-> decimal_digits(body, 0),
             scale |-> 10 ^ Cardinality({i \in digits : \E at \in points : at < i})]

ByResign == [kind |-> "ByResign"]

ByTime == [kind |-> "ByTime"]

ByForfeit == [kind |-> "ByForfeit"]

ByPoints(points_times_two) == [kind |-> "ByPoints", points_times_two |-> points_times_two]

\* (points * 2.0) as u32: towards zero, and negative values become 0.  The
\* numbers of the texts looked at stay far below u32::MAX, where the cast
\* would saturate.
points_times_two_of(points) ==
    IF points.negative
    THEN 0
    ELSE (2 * points.num) \div points.scale

parse_margin(input) ==
    IF input = <<"R">>
    THEN [ok |-> TRUE, margin |-> ByResign]
    ELSE IF input = <<"T">>
    THEN [ok |-> TRUE, margin |-> ByTime]
    ELSE IF input = <<"F">>
    THEN [ok |-> TRUE, margin |-> ByForfeit]
    ELSE LET points == parse_f32(input)
         IN IF points.ok
            THEN LET points_times_two == points_times_two_of(points)
                     \* ((points_times_two as f32) - points * 2.0) * scale
                     difference ==
                         points_times_two * points.scale
                             - (IF points.negative THEN -2 ELSE 2) * points.num
                 IN IF difference * 10000 < points.scale
                    THEN [ok |-> TRUE, margin |-> ByPoints(points_times_two)]
                    ELSE [ok |-> FALSE, error |-> "Invalid points value"]
            ELSE [ok |-> FALSE, error |-> "Unknown outcome margin"]

WithWinner(winner, margin) == [kind |-> "WithWinner", winner |-> winner, margin |-> margin]

parse_outcome(input) ==
    IF strip_prefix(input, <<"W", "+">>) # {}
    THEN LET margin == parse_margin(CHOOSE rest \in strip_prefix(input, <<"W", "+">>) : TRUE)
         IN IF margin.ok
            THEN [ok |-> TRUE, outcome |-> WithWinner("White", margin.margin)]
            ELSE margin
    ELSE IF strip_prefix(input, <<"B", "+">>) # {}
    THEN LET margin == parse_margin(CHOOSE rest \in strip_prefix(input, <<"B", "+">>) : TRUE)
         IN IF margin.ok
            THEN [ok |-> TRUE, outcome |-> WithWinner("White", margin.margin)]
            ELSE margin
    ELSE IF input = <<"J", "i", "g", "o">>
    THEN [ok |-> TRUE, outcome |-> [kind |-> "Draw"]]
    ELSE IF input = <<"V", "o", "i", "d">>
    THEN [ok |-> TRUE, outcome |-> [kind |-> "Void"]]
    ELSE IF input = <<"U", "n", "f", "i", "n", "i", "s", "h", "e", "d">>
    THEN [ok |-> TRUE, outcome |-> [kind |-> "Unfinished"]]
    ELSE IF input = <<"U", "n", "k", "n", "o", "w", "n">>
    THEN [ok |-> TRUE, outcome |-> [kind |-> "Unknown"]]
    ELSE [ok |-> FALSE, error |-> "Unknown outcome"]

---------------------------------------------------------------------------
(* parse_outcome on a text made of one of a few beginnings and up to       *)
(* MaxMarginLen further characters.                                        *)

MaxMarginLen == 3

\* The characters of the margins; "x" stands for any other character.
MarginChars == {"R", "T", "F", "0", "2", "5", ".", "-", "x"}

Margins(len) == UNION {[1 .. n -> MarginChars] : n \in 0 .. len}

Beginnings ==
    {<<>>, <<"W", "+">>, <<"B", "+">>, <<"w", "+">>, <<"b", "+">>, <<"W">>, <<"B">>,
     <<"J", "i", "g", "o">>, <<"V", "o", "i", "d">>,
     <<"U", "n", "f", "i", "n", "i", "s", "h", "e", "d">>,
     <<"U", "n", "k", "n", "o", "w", "n">>, <<"D", "r", "a", "w">>}

OutcomeTexts(len) == {beginning \o margin : beginning \in Beginnings, margin \in Margins(len)}

InitOutcome ==
    /\ board = board_new
    /\ current_player = "Black"
    /\ num_captured_by = [p \in Player |-> 0]
    /\ analysis = analyze(board_new)
    /\ last \in {[op |-> "text", text |-> text] : text \in OutcomeTexts(MaxMarginLen)}
    /\ moves = 0
    /\ run = NotRunning

\* parse_outcome on the text at hand.
ParseOutcome ==
    /\ last.op = "text"
    /\ last' = [op |-> "parse_outcome", text |-> last.text,
                result |-> parse_outcome(last.text)]
    /\ UNCHANGED <<board, current_player, num_captured_by, analysis, moves, run>>

NextOutcome == ParseOutcome

SpecOutcome == InitOutcome /\ [][NextOutcome]_vars

---------------------------------------------------------------------------
(* sgf_parser: parse_sgf on the collection sgf_parse::go::parse returns,   *)
(* and the replay of the parsed moves by game_position_after_num_moves.    *)
(* A collection is given by the number of its games and, for the first     *)
(* game, the SZ and RE properties of the root node, the B and W properties *)
(* of the root node, the number of children of the root node and the nodes *)
(* reached from the first child through first children.  A property that   *)
(* is absent is the empty set, one that is present a singleton.            *)

\* enum Move, for the moves of the file and the parsed ones alike; a Pass
\* has no coordinates, x and y are 0 in its record.
Pass == [kind |-> "Pass", x |-> 0, y |-> 0]

Place(px, py) == [kind |-> "Place", x |-> px, y |-> py]

\* parse_move; `as u8` keeps the low eight bits.
parse_move(input) ==
    IF input.kind = "Pass" THEN Pass ELSE Place(input.x % 256, input.y % 256)

\* single(iter) on an iterator of `count` elements is Ok.
single_is_ok(count) == count = 1

\* The loop of parse_sgf from node number index on.
RECURSIVE parse_sgf_loop(_, _, _, _)
parse_sgf_loop(nodes, index, player, parsed) ==
    IF index > Len(nodes)
    THEN [status |-> "Ok", moves |-> parsed]
    ELSE LET current_node == nodes[index]
         IN IF current_node.W # {}
            THEN IF current_node.B # {}
                 THEN [status |-> "Err", error |-> "Node has both a W and B property"]
                 ELSE IF player # "White"
                 THEN [status |-> "Err", error |-> "Expected White's turn"]
                 ELSE parse_sgf_loop(nodes, index + 1, "Black",
                          Append(parsed, parse_move(CHOOSE mv \in current_node.W : TRUE)))
            ELSE IF current_node.B # {}
            THEN IF player # "Black"
                 THEN [status |-> "Err", error |-> "Expected White's turn"]
                 ELSE parse_sgf_loop(nodes, index + 1, "White",
                          Append(parsed, parse_move(CHOOSE mv \in current_node.B : TRUE)))
            ELSE [status |-> "Err", error |-> "Node has neither a B nor a W property"]

parse_sgf(file) ==
    IF ~single_is_ok(file.games)
    THEN [status |-> "Err", error |-> "Expected exactly one game in the SGF file"]
    ELSE IF file.SZ \notin {{}, {<<19, 19>>}}
    THEN [status |-> "Err", error |-> "Expected board size to be 19x19"]
    ELSE IF file.RE = {}
    THEN [status |-> "Panic"]
    ELSE LET outcome == parse_outcome(CHOOSE text \in file.RE : TRUE)
         IN IF ~outcome.ok
            THEN [status |-> "Err", error |-> outcome.error]
            ELSE IF ~single_is_ok(file.children)
            THEN [status |-> "Err", error |-> "single"]
            ELSE LET loop == parse_sgf_loop(file.nodes, 1, "Black", <<>>)
                 IN IF loop.status = "Ok"
                    THEN [status |-> "Ok", outcome |-> outcome.outcome, moves |-> loop.moves]
                    ELSE loop

MaxNodes == 3

\* The moves of the files: a pass and two points of the board.
SgfMoves == {Pass, Place(0, 0), Place(1, 0)}

\* The nodes of the files, by their B and W properties.
SgfNodes ==
    {[B |-> {}, W |-> {}]}
        \cup {[B |-> {mv}, W |-> {}] : mv \in SgfMoves}
        \cup {[B |-> {}, W |-> {mv}] : mv \in SgfMoves}
        \cup {[B |-> {mv}, W |-> {mv}] : mv \in SgfMoves}

\* The root nodes of the files: without a move, or with a move of Black.
SgfRoots == {[B |-> {}, W |-> {}], [B |-> {Place(0, 0)}, W |-> {}]}

\* The rest of the files: the number of games, SZ, RE and the number of
\* children of the root node.
SgfHeaders ==
    {[games |-> 1, SZ |-> {}, RE |-> {<<"W", "+", "R">>}, children |-> 1],
     [games |-> 1, SZ |-> {<<19, 19>>}, RE |-> {<<"B", "+", "2", ".", "5">>}, children |-> 1],
     [games |-> 1, SZ |-> {<<9, 9>>}, RE |-> {<<"W", "+", "R">>}, children |-> 1],
     [games |-> 1, SZ |-> {}, RE |-> {}, children |-> 1],
     [games |-> 1, SZ |-> {}, RE |-> {<<"W", "+">>}, children |-> 1],
     [games |-> 2, SZ |-> {}, RE |-> {<<"W", "+", "R">>}, children |-> 1],
     [games |-> 1, SZ |-> {}, RE |-> {<<"W", "+", "R">>}, children |-> 2]}

SgfFiles(len) ==
    {[games |-> header.games, SZ |-> header.SZ, RE |-> header.RE, root |-> root,
      children |-> header.children, nodes |-> nodes] :
        header \in SgfHeaders, root \in SgfRoots,
        nodes \in UNION {[1 .. n -> SgfNodes] : n \in 1 .. len}}

InitSgf ==
    /\ board = game_new.board
    /\ current_player = game_new.current_player
    /\ num_captured_by = game_new.num_captured_by
    /\ analysis = game_new.analysis
    /\ last = [op |-> "new"]
    /\ moves = 0
    /\ run \in {[pc |-> "file", file |-> file] : file \in SgfFiles(MaxNodes)}

\* parse_sgf on the file at hand.
ParseSgf ==
    /\ run.pc = "file"
    /\ \E parsed \in {parse_sgf(run.file)} :
          run' = [pc |-> IF parsed.status = "Ok" THEN "parsed" ELSE "rejected",
                  file |-> run.file, result |-> parsed]
    /\ last' = [op |-> "parse_sgf"]
    /\ UNCHANGED <<board, current_player, num_captured_by, analysis, moves>>

\* The move the loop of game_position_after_num_moves is at.
next_move == run.result.moves[moves + 1]

\* One turn of the loop of game_position_after_num_moves: Some(Move::Pass).
ReplayPass ==
    /\ run.pc = "parsed"
    /\ moves < Len(run.result.moves)
    /\ next_move = Pass
    /\ \E after \in {pass_turn(Game)} :
          /\ board' = after.board
          /\ current_player' = after.current_player
          /\ num_captured_by' = after.num_captured_by
          /\ analysis' = after.analysis
    /\ last' = [op |-> "pass_turn", player |-> current_player]
    /\ moves' = moves + 1
    /\ UNCHANGED run

\* One turn of the loop: Some(Move::Place { x, y }); the unwrap() of an Err
\* panics.
ReplayPlace ==
    /\ run.pc = "parsed"
    /\ moves < Len(run.result.moves)
    /\ next_move # Pass
    /\ \E call \in {place_stone(Game, from_xy(next_move.x, next_move.y))} :
          /\ board' = call.game.board
          /\ current_player' = call.game.current_player
          /\ num_captured_by' = call.game.num_captured_by
          /\ analysis' = call.game.analysis
          /\ last' = [op |-> "place_stone", player |-> current_player,
                      pos |-> from_xy(next_move.x, next_move.y), result |-> call.result]
          /\ run' = IF call.result = "Ok" THEN run ELSE [run EXCEPT !.pc = "panicked"]
    /\ moves' = moves + 1

\* One turn of the loop when move_index is larger than the number of moves:
\* None, which panics.
ReplayPastEnd ==
    /\ run.pc = "parsed"
    /\ moves = Len(run.result.moves)
    /\ run' = [run EXCEPT !.pc = "panicked"]
    /\ last' = [op |-> "none"]
    /\ UNCHANGED <<board, current_player, num_captured_by, analysis, moves>>

NextSgf == ParseSgf \/ ReplayPass \/ ReplayPlace \/ ReplayPastEnd

SpecSgf == InitSgf /\ [][NextSgf]_vars

---------------------------------------------------------------------------
(* The rules of capture stated on the board alone, without the union-find  *)
(* grouping: chains by flood fill, liberties by adjacency of coordinates.  *)

Adjacent(p, q) ==
    \/ pos_y(p) = pos_y(q) /\ (pos_x(p) - pos_x(q)) \in {-1, 1}
    \/ pos_x(p) = pos_x(q) /\ (pos_y(p) - pos_y(q)) \in {-1, 1}

RECURSIVE Flood(_, _)
Flood(cells, chain) ==
    LET grown == chain \cup
                     {q \in all_positions :
                         \E p \in chain :
                             Adjacent(p, q) /\ board_get(cells, q) = board_get(cells, p)}
    IN IF grown = chain THEN chain ELSE Flood(cells, grown)

\* The maximal 4-connected set of cells holding the value of pos.
ChainOf(cells, pos) == Flood(cells, {pos})

\* The empty cells adjacent to a cell of the chain.
LibertiesOf(cells, chain) ==
    {q \in all_positions :
        board_get(cells, q) = NoPlayer /\ \E p \in chain : Adjacent(p, q)}

\* The stones of `player` whose chain has no liberty.
Dead(cells, player) ==
    {pos \in all_positions :
        /\ board_get(cells, pos) = player
        /\ LibertiesOf(cells, ChainOf(cells, pos)) = {}}

Without(cells, stones) ==
    [i \in DOMAIN cells |-> IF (i \div 2) \in stones THEN FALSE ELSE cells[i]]

StonesOf(cells, player) == {pos \in all_positions : board_get(cells, pos) = player}

\* The board a legal placement of mover at pos must leave: the opponent's
\* dead chains go first, then the mover's chains that are dead after that.
ReferenceBoard(cells, pos, mover) ==
    LET placed == board_set(cells, pos, mover)
        first == Without(placed, Dead(placed, other_player(mover)))
    IN Without(first, Dead(first, mover))

\* Every chain of stones has a liberty.
NoDeadChain(cells) == Dead(cells, "Black") \cup Dead(cells, "White") = {}

\* One call on a Game built by from_board from a position in which every
\* chain has a liberty.
InitFromLegal == InitFromBoard /\ NoDeadChain(board)

SpecFromLegal == InitFromLegal /\ [][NextFromBoard]_vars

\* The stones that were on the board before the step and are not after it.
Removed(player) == StonesOf(board, player) \ StonesOf(board', player)

\* The step is a call place_stone(pos).
Placing(pos) == last'.op = "place_stone" /\ last'.pos = pos

\* The step is a call place_stone(pos) that returned Ok.
PlacedOk(pos) == Placing(pos) /\ last'.result = "Ok"

---------------------------------------------------------------------------
(* The claims.                                                             *)

\* C1: place_stone(pos) on a cell that is not empty returns CellOccupied and
\* leaves the board, the side to move, both prisoner counts and the cached
\* analysis as they were.
C1_OccupiedLeavesGameUnchanged ==
    [][\A pos \in all_positions :
          (Placing(pos) /\ board_get(board, pos) # NoPlayer)
              => /\ last'.result = "CellOccupied"
                 /\ board' = board
                 /\ current_player' = current_player
                 /\ num_captured_by' = num_captured_by
                 /\ analysis' = analysis]_vars

\* C1 witness: a placement on a stone of the other colour was refused.
C1_Witness ==
    /\ last.op = "place_stone"
    /\ last.result = "CellOccupied"
    /\ board_get(board, last.pos) = other_player(current_player)

\* C2: place_stone returns Ok when the target cell is empty and CellOccupied
\* when it is not, and nothing else (no owner assertion fails on the way);
\* in particular every placement on the empty board returns Ok.
C2_OkIffEmpty ==
    [][\A pos \in all_positions :
          Placing(pos)
              => /\ last'.result = IF board_get(board, pos) = NoPlayer
                                   THEN "Ok" ELSE "CellOccupied"
                 /\ \A g \in DOMAIN analysis'.group_info :
                        analysis'.group_info[g].kind
                            \in {"PlayerGroup", "EmptyStonesGroup"}]_vars

\* C2 witness: the first call of a game placed a stone on the corner
\* (N-1, N-1) of the empty board and returned Ok.
C2_Witness ==
    /\ moves = 1
    /\ last.op = "place_stone"
    /\ last.pos = from_xy(N - 1, N - 1)
    /\ last.result = "Ok"
    /\ board_get(board, from_xy(N - 1, N - 1)) = "Black"

\* C3: when place_stone(pos) returns Ok the board is the reference board:
\* the stone written, the opponent's chains without liberties removed, then
\* the mover's chains that have no liberties after that removal removed.
C3_BoardIsReference ==
    [][\A pos \in all_positions :
          PlacedOk(pos) => board' = ReferenceBoard(board, pos, current_player)]_vars

\* C3 witness: a stone written without liberties captured opponent stones
\* and stayed on the board.
C3_Witness ==
    /\ last.op = "place_stone"
    /\ last.result = "Ok"
    /\ last.liberties = 0
    /\ last.captured[other_player(current_player)] > 0
    /\ board_get(board, last.pos) = other_player(current_player)

\* C4: when place_stone(pos) removes at least one opponent stone, the stone
\* just placed is on the board when the call returns.
C4_CaptureIsNotSuicide ==
    [][\A pos \in all_positions :
          (PlacedOk(pos) /\ Removed(other_player(current_player)) # {})
              => board_get(board', pos) = current_player]_vars

\* C4 witness: a stone written without liberties captured, is on the board
\* and its chain has a liberty again.
C4_Witness ==
    /\ last.op = "place_stone"
    /\ last.result = "Ok"
    /\ last.liberties = 0
    /\ last.captured[other_player(current_player)] > 0
    /\ last.captured[current_player] = 0
    /\ board_get(board, last.pos) = other_player(current_player)
    /\ LibertiesOf(board, ChainOf(board, last.pos)) # {}

\* The placement of mover at pos is a suicide: after the opponent's dead
\* chains are removed the chain of the new stone has no liberty.
Suicide(cells, pos, mover) ==
    LET placed == board_set(cells, pos, mover)
        first == Without(placed, Dead(placed, other_player(mover)))
    IN pos \in Dead(first, mover)

\* C5 as stated: after place_stone returns Ok the target cell holds the
\* mover's colour, for all boards and all moves.
C5_Original ==
    [][\A pos \in all_positions :
          PlacedOk(pos) => board_get(board', pos) = current_player]_vars

\* C5 amended: after place_stone returns Ok the target cell holds the
\* mover's colour, unless the move is a suicide, and then it is empty.
C5_TargetHoldsMoverUnlessSuicide ==
    [][\A pos \in all_positions :
          PlacedOk(pos)
              => board_get(board', pos) = IF Suicide(board, pos, current_player)
                                          THEN NoPlayer
                                          ELSE current_player]_vars

\* C5 witness: place_stone returned Ok and the target cell is empty.
C5_Witness ==
    /\ last.op = "place_stone"
    /\ last.result = "Ok"
    /\ board_get(board, last.pos) = NoPlayer

\* C6: the side to move changes exactly in the steps that are a pass or a
\* place_stone returning Ok, and never in one returning CellOccupied.
C6_SideFlipsExactlyOnOkAndPass ==
    [][(current_player' = other_player(current_player))
           <=> (last'.op = "pass_turn"
                   \/ (last'.op = "place_stone" /\ last'.result = "Ok"))]_vars

\* C6 witness: White captured with a placement and it is Black's turn.
C6_Witness ==
    /\ last.op = "place_stone"
    /\ last.result = "Ok"
    /\ last.captured["White"] > 0
    /\ current_player = "Black"

\* C7: a placement on an empty cell that captures no opponent stone and
\* leaves the chain of the new stone without liberties returns Ok, removes
\* that whole chain, adds its size to the opponent's prisoners and flips
\* the side to move.
C7_SuicideIsPlayed ==
    [][\A pos \in all_positions :
          LET mover == current_player
              placed == board_set(board, pos, mover)
              chain == ChainOf(placed, pos)
          IN (/\ Placing(pos)
              /\ board_get(board, pos) = NoPlayer
              /\ Dead(placed, other_player(mover)) = {}
              /\ LibertiesOf(placed, chain) = {})
                 => /\ last'.result = "Ok"
                    /\ \A q \in chain : board_get(board', q) = NoPlayer
                    /\ num_captured_by'[other_player(mover)] =
                           num_add(num_captured_by[other_player(mover)],
                                   Cardinality(chain))
                    /\ num_captured_by'[mover] = num_captured_by[mover]
                    /\ current_player' = other_player(mover)]_vars

\* C7 witness: a placement completed a chain of two or more stones without
\* liberties, which went to the opponent, and captured nothing.
C7_Witness ==
    /\ last.op = "place_stone"
    /\ last.result = "Ok"
    /\ last.liberties = 0
    /\ last.captured[current_player] >= 2
    /\ last.captured[other_player(current_player)] = 0
    /\ board_get(board, last.pos) = NoPlayer

\* C8: after a place_stone that returned Ok no chain of stones on the board
\* is without liberties.
C8_NoChainWithoutLiberties ==
    (last.op = "place_stone" /\ last.result = "Ok") => NoDeadChain(board)

\* C8 witness: a placement removed stones of both colours and left stones
\* of both colours on the board.
C8_Witness ==
    /\ last.op = "place_stone"
    /\ last.result = "Ok"
    /\ last.captured["Black"] > 0
    /\ last.captured["White"] > 0
    /\ StonesOf(board, "Black") # {}
    /\ StonesOf(board, "White") # {}

\* C9: in a place_stone that returns Ok the mover's prisoners grow by the
\* number of opponent stones removed and the opponent's by the number of
\* mover stones removed (the stone just placed included); an opponent chain
\* whose single liberty is pos is removed whole.
C9_PrisonersCountRemovedStones ==
    [][\A pos \in all_positions :
          LET mover == current_player
              opponent == other_player(current_player)
              lost == (StonesOf(board, mover) \cup {pos}) \ StonesOf(board', mover)
          IN PlacedOk(pos)
                 => /\ num_captured_by'[mover] =
                           num_captured_by[mover] + Cardinality(Removed(opponent))
                    /\ num_captured_by'[opponent] =
                           num_captured_by[opponent] + Cardinality(lost)
                    /\ \A q \in StonesOf(board, opponent) :
                           LibertiesOf(board, ChainOf(board, q)) = {pos}
                               => /\ ChainOf(board, q) \subseteq Removed(opponent)
                                  /\ num_captured_by'[mover] >=
                                         num_captured_by[mover]
                                             + Cardinality(ChainOf(board, q))]_vars

\* The stones on the board.
Stones(cells) == StonesOf(cells, "Black") \cup StonesOf(cells, "White")

Prisoners(captured) == captured["Black"] + captured["White"]

\* C10: the sum of the two prisoner counts never decreases, and every call
\* raises it by the number of stones it removed: none for a pass or a
\* refused placement, and for a placement the stones (the new one included)
\* that are no longer on the board.
C10_PrisonersGrowByRemovedStones ==
    [][/\ Prisoners(num_captured_by') >= Prisoners(num_captured_by)
       /\ Prisoners(num_captured_by') - Prisoners(num_captured_by) =
              IF last'.op = "place_stone" /\ last'.result = "Ok"
              THEN Cardinality((Stones(board) \cup {last'.pos}) \ Stones(board'))
              ELSE 0
       /\ (last'.op = "place_stone" /\ last'.result = "Ok")
              \/ Stones(board') = Stones(board)]_vars

\* C11: a pass hands the turn to the other player and leaves every cell of
\* the board, both prisoner counts and the cached analysis as they were (no
\* capture, no rebuild), so that a second pass right after it gives back the
\* game as it was before the first.
C11_PassOnlyFlipsSide ==
    [][last'.op = "pass_turn"
           => /\ current_player' = other_player(current_player)
              /\ \A pos \in all_positions :
                     board_get(board', pos) = board_get(board, pos)
              /\ board' = board
              /\ num_captured_by' = num_captured_by
              /\ analysis' = analysis
              /\ pass_turn(Game') = Game]_vars

\* C11 witness: a pass was made in a game that has stones on the board and
\* prisoners taken.
C11_Witness ==
    /\ last.op = "pass_turn"
    /\ Stones(board) # {}
    /\ Prisoners(num_captured_by) > 0

\* C12: a new Game has every cell empty, Black to move, both prisoner counts
\* zero and the analysis of the empty board: one group, with id 0, that
\* holds every cell and has no owner.
C12_NewGame ==
    last.op = "new"
        => /\ \A pos \in all_positions :
                  /\ board_get(board, pos) = NoPlayer
                  /\ ~is_occupied(board, pos)
                  /\ analysis.pos_to_group[pos] = 0
           /\ current_player = "Black"
           /\ \A p \in Player : num_captured_by[p] = 0
           /\ DOMAIN analysis.group_info = {0}
           /\ analysis.group_info[0].kind = "EmptyStonesGroup"
           /\ analysis.group_info[0].owner = NoPlayer
           /\ analysis = analyze(board)

\* C12 witness: the Game as Game::new returns it, before any call.
C12_Witness ==
    /\ last.op = "new"
    /\ moves = 0
    /\ Game = game_new

\* C13: group_connected_stones gives two cells the same group id exactly
\* when they hold the same value (empty, Black or White) and a path of
\* 4-adjacent cells holding that value joins them; the last cell of a row and
\* the first cell of the next row are joined only through such a path.
C13_SameIdIffConnected ==
    LET pos_to_group == group_connected_stones(board).pos_to_group
    IN /\ \A p \in all_positions :
              {q \in all_positions : pos_to_group[q] = pos_to_group[p]}
                  = ChainOf(board, p)
       /\ \A p \in all_positions, q \in all_positions :
              (pos_to_group[p] = pos_to_group[q])
                  => board_get(board, p) = board_get(board, q)
       /\ \A py \in 0 .. (N - 2) :
              (pos_to_group[from_xy(N - 1, py)] = pos_to_group[from_xy(0, py + 1)])
                  => from_xy(0, py + 1) \in ChainOf(board, from_xy(N - 1, py))

\* C13 witness: a board on which the end of the first row and the start of
\* the second hold Black stones in different groups, two White stones that
\* do not touch are in one group, and two empty cells are in one group.
C13_Witness ==
    LET pos_to_group == group_connected_stones(board).pos_to_group
    IN /\ board_get(board, from_xy(N - 1, 0)) = "Black"
       /\ board_get(board, from_xy(0, 1)) = "Black"
       /\ pos_to_group[from_xy(N - 1, 0)] # pos_to_group[from_xy(0, 1)]
       /\ \E p \in all_positions, q \in all_positions :
              /\ p # q
              /\ ~Adjacent(p, q)
              /\ board_get(board, p) = "White"
              /\ pos_to_group[p] = pos_to_group[q]
       /\ \E p \in all_positions, q \in all_positions :
              /\ p # q
              /\ board_get(board, p) = NoPlayer
              /\ pos_to_group[p] = pos_to_group[q]

\* C14: the group ids group_connected_stones returns are exactly
\* 0 .. num_groups-1, num_groups is the number of connected components, and
\* the ids follow the first occurrence in the row-major scan: cell 0 has id
\* 0 and the first cell of every further group has the next unused id.
C14_IdsConsecutiveInScanOrder ==
    LET grouped == group_connected_stones(board)
        pos_to_group == grouped.pos_to_group
        seen_before(p) == {pos_to_group[q] : q \in 0 .. (p - 1)}
    IN /\ {pos_to_group[p] : p \in all_positions} = 0 .. (grouped.num_groups - 1)
       /\ grouped.num_groups =
              Cardinality({ChainOf(board, p) : p \in all_positions})
       /\ pos_to_group[0] = 0
       /\ \A p \in all_positions :
              pos_to_group[p] \notin seen_before(p)
                  => pos_to_group[p] = Cardinality(seen_before(p))

\* C14 witness: a board of five or more groups on which a group holds cells
\* that the scan reaches before and after a cell of a group with a larger id.
C14_Witness ==
    LET grouped == group_connected_stones(board)
        pos_to_group == grouped.pos_to_group
    IN /\ grouped.num_groups >= 5
       /\ \E p \in all_positions, q \in all_positions, r \in all_positions :
              /\ p < q
              /\ q < r
              /\ pos_to_group[p] = pos_to_group[r]
              /\ pos_to_group[q] > pos_to_group[p]

\* C15: in analyze(b) the liberties of a group of stones are the number of
\* distinct empty cells 4-adjacent to a cell of the group: an empty cell
\* that touches the group on several sides counts once, and an empty cell
\* that touches several groups counts once for each.
C15_LibertiesAreAdjacentEmptyCells ==
    LET fresh == analyze(board)
    IN \A p \in all_positions :
           board_get(board, p) # NoPlayer
               => LET info == fresh.group_info[fresh.pos_to_group[p]]
                  IN /\ info.kind = "PlayerGroup"
                     /\ info.liberties =
                            Cardinality(LibertiesOf(board, ChainOf(board, p)))

\* C15 witness: an empty cell touches one group of stones on two sides and
\* a second group of stones on a third; each has it among its liberties and
\* the first has exactly one liberty.
C15_Witness ==
    LET fresh == analyze(board)
    IN \E e \in all_positions, p \in all_positions,
          q \in all_positions, r \in all_positions :
           /\ board_get(board, e) = NoPlayer
           /\ p # q
           /\ Adjacent(e, p) /\ Adjacent(e, q) /\ Adjacent(e, r)
           /\ board_get(board, p) # NoPlayer
           /\ board_get(board, r) # NoPlayer
           /\ fresh.pos_to_group[p] = fresh.pos_to_group[q]
           /\ fresh.pos_to_group[r] # fresh.pos_to_group[p]
           /\ fresh.group_info[fresh.pos_to_group[p]].liberties = 1
           /\ fresh.group_info[fresh.pos_to_group[r]].liberties >= 1

\* C16: in every state of a game, every group the cached analysis records
\* with an owner consists of cells that all hold a stone of that owner.
C16_OwnerIsColourOfEveryCell ==
    \A g \in DOMAIN analysis.group_info :
        analysis.group_info[g].kind = "PlayerGroup"
            => \A pos \in all_positions :
                   analysis.pos_to_group[pos] = g
                       => board_get(board, pos) = analysis.group_info[g].owner

\* C17: there is no ko or superko rule. A placement on an empty cell returns
\* Ok also when it leaves the board exactly as it was before the call, and
\* after a capture the other player's placement on a cell just emptied
\* returns Ok, also when it restores the board from before the capture.
C17_NoKoRule ==
    [][\A pos \in all_positions :
          (Placing(pos) /\ board_get(board, pos) = NoPlayer)
              => /\ last'.result = "Ok"
                 /\ \A q \in Removed(other_player(current_player)) :
                        place_stone(Game', q).result = "Ok"]_vars

\* C17 witness: a stone placed without liberties captured one stone and
\* stands alone with the emptied cell q as its only liberty, so the board
\* before that call had the stone of the player now to move on q and no
\* stone on last.pos; place_stone(q) returns Ok and leaves that board again.
C17_Witness ==
    /\ last.op = "place_stone"
    /\ last.result = "Ok"
    /\ last.liberties = 0
    /\ last.captured[other_player(current_player)] = 1
    /\ last.captured[current_player] = 0
    /\ ChainOf(board, last.pos) = {last.pos}
    /\ \E q \in all_positions :
           /\ LibertiesOf(board, {last.pos}) = {q}
           /\ \E again \in {place_stone(Game, q)} :
                  /\ again.result = "Ok"
                  /\ again.game.board =
                         board_set(Without(board, {last.pos}), q, current_player)

\* C18: every NumStones count of the Game (the two prisoner counts and the
\* liberties of the groups of the analysis) is at most N*N in every state,
\* and no addition to a prisoner count overflows the index type: a count
\* never becomes smaller.
C18_CountsBoundedByBoard ==
    /\ [](/\ \A p \in Player : num_captured_by[p] <= NumCells
          /\ \A g \in DOMAIN analysis.group_info :
                 analysis.group_info[g].liberties <= NumCells)
    /\ [][\A p \in Player : num_captured_by'[p] >= num_captured_by[p]]_vars

\* The chains of stones on the board.
StoneComponents(cells) == {ChainOf(cells, p) : p \in Stones(cells)}

\* C19: the number of groups G of a board is at most N*N minus the number of
\* occupied cells, plus the number of connected components of stones, plus 1.
C19_GroupCountBound ==
    group_connected_stones(board).num_groups
        <= NumCells - Cardinality(Stones(board))
               + Cardinality(StoneComponents(board)) + 1

\* C19 witness: a board with stones of both colours in three or more chains,
\* one of them of three or more stones, on which no two empty cells touch,
\* so that every empty cell is a group and G is N*N minus the occupied cells
\* plus the chains.
C19_Witness ==
    /\ StonesOf(board, "Black") # {}
    /\ StonesOf(board, "White") # {}
    /\ Cardinality(StoneComponents(board)) >= 3
    /\ \E chain \in StoneComponents(board) : Cardinality(chain) >= 3
    /\ Cardinality(all_positions \ Stones(board)) >= 2
    /\ group_connected_stones(board).num_groups =
           NumCells - Cardinality(Stones(board))
               + Cardinality(StoneComponents(board))

\* Every cell of the board holds a stone.
Full(cells) == Stones(cells) = all_positions

\* C20 as stated: a board filled with stones, none of them captured, is one
\* occupied group (G = 1) and has no empty cell.
C20_Original ==
    Full(board)
        => /\ group_connected_stones(board).num_groups = 1
           /\ \A pos \in all_positions : board_get(board, pos) # NoPlayer

\* C20 amended: a board filled with stones of one colour, none of them
\* captured, has no empty cell and is one group (G = 1), with id 0, owned by
\* that colour and without liberties; a board filled with stones of both
\* colours has one group for each chain.
C20_FullBoardOfOneColour ==
    Full(board)
        => LET fresh == analyze(board)
           IN /\ \A pos \in all_positions : board_get(board, pos) # NoPlayer
              /\ Cardinality(DOMAIN fresh.group_info) =
                     Cardinality(StoneComponents(board))
              /\ \A player \in Player :
                     StonesOf(board, player) = all_positions
                         => /\ group_connected_stones(board).num_groups = 1
                            /\ \A pos \in all_positions : fresh.pos_to_group[pos] = 0
                            /\ fresh.group_info[0] = PlayerGroup(player, 0)

\* C20 witness: every cell of the board holds a Black stone.
C20_Witness ==
    /\ StonesOf(board, "Black") = all_positions
    /\ group_connected_stones(board).num_groups = 1

---------------------------------------------------------------------------
\* C21: Board::set(pos, value) followed by a read of pos returns value, for
\* each of empty, Black and White and whatever the cell held before, and
\* every other cell reads as it did before the call.
C21_SetOverwritesOneCell ==
    [][last'.op = "set" =>
          /\ last'.read = last'.value
          /\ \A q \in all_positions \ {last'.pos} :
                 board_get(board', q) = board_get(board, q)]_vars

\* A White stone is written between a Black stone and an empty cell and read
\* back.
C21_Witness ==
    /\ last.op = "set"
    /\ last.pos = from_xy(1, 1)
    /\ last.value = "White"
    /\ last.read = "White"
    /\ board_get(board, from_xy(0, 1)) = "Black"
    /\ board_get(board, from_xy(2, 1)) = NoPlayer

\* The text without its whitespace.
Strip(text) == SelectSeq(text, LAMBDA char : char \notin Whitespace)

\* The cell value the board text format gives a symbol.
ValueOf(token) ==
    IF token = WhiteCircle THEN "Black"
    ELSE IF token = BlackCircle THEN "White"
    ELSE NoPlayer

\* C22: Board::from_str accepts a text exactly when the text without its
\* whitespace is N*N symbols, each '_', the white circle or the black circle;
\* the board it returns holds at (x, y) the value of symbol number y*N + x
\* ('_' empty, white circle Black, black circle White); in every other case
\* it returns an error and no board.
C22_FromStrAcceptsExactlyGrids ==
    last.op = "from_str" =>
        LET symbols == Strip(last.text)
            grid == /\ Len(symbols) = NumCells
                    /\ \A i \in 1 .. NumCells : symbols[i] \in Tokens
        IN /\ last.result.ok <=> grid
           /\ last.result.ok =>
                 \A x \in 0 .. (N - 1), y \in 0 .. (N - 1) :
                     board_get(last.result.board, from_xy(x, y))
                         = ValueOf(symbols[y * N + x + 1])
           /\ ~last.result.ok => DOMAIN last.result = {"ok", "error"}

\* A text in rows with a stone of either colour has been accepted.
C22_Witness ==
    /\ last.op = "from_str"
    /\ last.result.ok
    /\ Len(last.text) = NumCells * 2 + N
    /\ board_get(board, from_xy(1, 0)) = "Black"
    /\ board_get(board, from_xy(0, 2)) = "White"

\* C23: writing a board as text and parsing that text gives the board back:
\* the parse succeeds and returns the board that was written.
C23_TextRoundTrip ==
    [][last.op = "fmt" /\ last'.op = "from_str" =>
          /\ last'.result.ok
          /\ last'.result.board = board]_vars

---------------------------------------------------------------------------
(* The union-find forest read without writing to it.                       *)

\* The positions met on the walk from pos along the parent pointers, as far
\* as `turns` pointers are followed.
RECURSIVE Walk(_, _, _)
Walk(groups, pos, turns) ==
    IF turns = 0 \/ groups[pos] = pos
    THEN {pos}
    ELSE {pos} \cup Walk(groups, groups[pos], turns - 1)

\* The path from pos to its root; a walk of N*N pointers meets a position
\* twice, so a walk that ends ends within that many.
Path(groups, pos) == Walk(groups, pos, NumCells)

\* The walk from pos ends at a root.
EndsAtRoot(groups, pos) == \E r \in Path(groups, pos) : groups[r] = r

RootOf(groups, pos) == CHOOSE r \in Path(groups, pos) : groups[r] = r

\* The positions add_to_group has been called for.
Scanned ==
    IF run.pc \in {"finalize", "done"} \/ (run.pc = "find" /\ run.ret = "finalize")
    THEN all_positions
    ELSE 0 .. (run.current_pos - 1)

\* find_group_root is about to return run.find.current_pos.
Returning == run.pc = "find" /\ run.find.parent_pos = run.find.current_pos

\* C24: in every state of group_connected_stones, after every add_to_group,
\* every merge_groups and every pointer write of find_group_root, in the scan
\* and in finalize, groups[i] <= i for every position i; the assertion of
\* add_to_group never fails.
C24_ParentMonotonicity ==
    /\ \A i \in all_positions : run.uf.groups[i] <= i
    /\ run.uf.ok
    /\ run.pc # "panicked"

\* In finalize, after two groups have been merged, find_group_root has
\* replaced a parent by a grandparent that differs from it.
C24_Witness ==
    /\ run.pc = "find"
    /\ run.ret = "finalize"
    /\ run.uf.groups # run.entry
    /\ \E i \in all_positions : run.uf.groups[i] \notin {0, i}

\* C25: find_group_root is only called for positions already scanned; in
\* every state the walk from every scanned position along the parent
\* pointers ends at a root, every call of find_group_root returns, and the
\* position it returns is a root on the path from its argument.
C25_FindTerminatesAtRoot ==
    /\ [](/\ \A x \in Scanned : EndsAtRoot(run.uf.groups, x)
          /\ run.pc = "find" => run.arg \in Scanned
          /\ Returning =>
                /\ run.uf.groups[run.find.current_pos] = run.find.current_pos
                /\ run.find.current_pos \in Path(run.entry, run.arg)
                /\ run.find.current_pos \in Path(run.uf.groups, run.arg))
    /\ (run.pc = "find") ~> (run.pc # "find")

\* find_group_root returns from a position two pointers away from its root.
C25_Witness ==
    /\ Returning
    /\ run.entry[run.arg] \notin {run.arg, run.find.current_pos}

\* C26: in every state of a call of find_group_root, and so after it, every
\* position has the root it had when the call was made; the parent pointers
\* that differ from then are those of positions on the path from the
\* argument to its root, and each holds the grandparent of then.
C26_PathSplittingKeepsRoots ==
    run.pc = "find" =>
        /\ \A i \in all_positions :
               RootOf(run.uf.groups, i) = RootOf(run.entry, i)
        /\ \A i \in all_positions :
               run.uf.groups[i] # run.entry[i] =>
                   /\ i \in Path(run.entry, run.arg)
                   /\ run.uf.groups[i] = run.entry[run.entry[i]]

\* find_group_root returns after it has replaced a parent.
C26_Witness ==
    /\ Returning
    /\ run.uf.groups[run.arg] # run.entry[run.arg]

\* C27: merge_groups is called with two distinct roots; it makes the smaller
\* one the parent of the other, returns the smaller one and writes no other
\* parent pointer; in every state the root of a scanned position is the first
\* position, in row-major order, of the positions that share that root: it
\* shares the root itself and no position that shares it has a smaller index.
C27_MergeKeepsFirstCellAsRoot ==
    /\ [](\A j \in Scanned : RootOf(run.uf.groups, j) <= j)
    /\ [][run.pc = "merge" =>
             LET a == run.left_group
                 b == run.top_group
                 smaller == IF a < b THEN a ELSE b
                 larger == IF a < b THEN b ELSE a
             IN /\ a # b
                /\ run.uf.groups[a] = a
                /\ run.uf.groups[b] = b
                /\ run'.uf.groups = [run.uf.groups EXCEPT ![larger] = smaller]
                /\ run'.group_for_current = smaller]_vars

\* The group of the left cell, which starts in the row of the cell, has been
\* merged into the group of the upper cell.
C27_Witness ==
    /\ run.pc = "add"
    /\ run.left_group > run.top_group
    /\ run.uf.groups[run.left_group] = run.top_group
    /\ run.group_for_current = run.top_group

\* C28: when finalize finds that a position is not the root of its group,
\* the root has a smaller index, so its entry of the group numbers was
\* written earlier in the sweep; the number copied is that entry, and an
\* entry once written is not written again.
C28_FinalizeCopiesFromWrittenEntry ==
    [][run.pc = "find" /\ run.ret = "finalize" /\ run'.pc = "finalize" =>
          /\ run.find.current_pos # run.index =>
                 /\ run.find.current_pos < run.index
                 /\ run'.ids[run.index] = run.ids[run.find.current_pos]
          /\ \A i \in 0 .. (run.index - 1) : run'.ids[i] = run.ids[i]]_vars

\* finalize has given a position that is not a root the number of its root,
\* which is not the first number.
C28_Witness ==
    /\ run.pc = "finalize"
    /\ \E i \in 0 .. (run.index - 1) :
           /\ run.uf.groups[i] # i
           /\ run.ids[i] = run.ids[run.uf.groups[i]]
           /\ run.ids[i] > 0

\* C29: between the two halves of the capture protocol, keeping the grouping
\* and refreshing the group information is the same as analysing the board
\* again: once the mover has removed the opponent's groups without liberties,
\* the grouping made before the removal gives every cell the group id, and
\* the board the number of groups, that group_connected_stones gives on the
\* board after the removal, and the refreshed group information is that of
\* analyze on that board.  (Where nothing was removed, analyze on that board
\* is the analysis made after the stone was written.)
C29_RefreshEqualsReanalysis ==
    [][last'.op = "place_stone" /\ last'.result = "Ok" =>
          \E placed \in {update_analysis([Game EXCEPT !.board =
                              set_if_empty(board, last'.pos, current_player).cells])} :
              \E first \in {player_takes_prisoners(placed, current_player)} :
                  \E fresh \in {IF first.board = placed.board
                                 THEN placed.analysis
                                 ELSE analyze(first.board)} :
                      /\ placed.analysis.pos_to_group = fresh.pos_to_group
                      /\ DOMAIN placed.analysis.group_info = DOMAIN fresh.group_info
                      /\ update_group_info(placed.analysis, first.board) = fresh]_vars

\* The mover has taken a group of two stones or two groups, and stones of
\* both colours are left on the board.
C29_Witness ==
    /\ last.op = "place_stone"
    /\ last.result = "Ok"
    /\ last.captured[other_player(current_player)] >= 2
    /\ StonesOf(board, "Black") # {}
    /\ StonesOf(board, "White") # {}

\* The cells the analysis puts in the group.
CellsOf(grouping, group) == {pos \in all_positions : grouping.pos_to_group[pos] = group}

\* C30: Analysis::capture_group(g, on_remove) on a group of stones without
\* liberties, in an analysis that is that of the board, calls on_remove once
\* for every cell of g and for no other cell and makes g an empty group; every
\* group of stones next to g gains one liberty for each cell of g next to it,
\* and its liberties are then the empty cells next to it on the board after
\* the removal.  Neither the panic! nor the unreachable! is met.
C30_CaptureGroupUpdatesNeighbours ==
    [][last'.op = "capture_group" /\ analysis = analyze(board) =>
          LET g == last'.group
              removed == last'.removed
          IN /\ ~last'.panicked
             /\ Len(removed) = Cardinality(CellsOf(analysis, g))
             /\ {removed[i] : i \in 1 .. Len(removed)} = CellsOf(analysis, g)
             /\ analysis'.group_info[g] = EmptyStonesGroup
             /\ \A n \in DOMAIN analysis.group_info \ {g} :
                    (/\ analysis.group_info[n].kind = "PlayerGroup"
                     /\ \E p \in CellsOf(analysis, g), q \in CellsOf(analysis, n) :
                            Adjacent(p, q))
                    => /\ analysis'.group_info[n].kind = "PlayerGroup"
                       /\ analysis'.group_info[n].liberties
                              = analysis.group_info[n].liberties
                                  + Cardinality({p \in CellsOf(analysis, g) :
                                        \E q \in CellsOf(analysis, n) : Adjacent(p, q)})
                       /\ analysis'.group_info[n].liberties
                              = Cardinality(LibertiesOf(board', CellsOf(analysis, n)))]_vars

\* A group of two stones has been captured and a group next to it has more
\* than two liberties.
C30_Witness ==
    /\ last.op = "capture_group"
    /\ Len(last.removed) = 2
    /\ \E n \in DOMAIN analysis.group_info :
           /\ analysis.group_info[n].kind = "PlayerGroup"
           /\ analysis.group_info[n].liberties > 2

\* The game between _update_analysis and _take_prisoners when the mover
\* writes a stone at pos.
PlacedAt(pos) ==
    update_analysis([Game EXCEPT !.board = set_if_empty(board, pos, current_player).cells])

\* The groups in `groups` are captured one after the other, in the order of
\* _player_takes_prisoners; each of them, when its turn comes, has no cell
\* next to a cell that is empty on the board or belongs to an empty group of
\* the analysis, and Analysis::capture_group on the analysis, in which the
\* groups captured before it are empty groups, meets no panic!.
RECURSIVE CapturedAwayFromEmpty(_, _, _, _)
CapturedAwayFromEmpty(cells, grouping, groups, group) ==
    IF group = Cardinality(DOMAIN grouping.group_info)
    THEN TRUE
    ELSE IF group \notin groups
    THEN CapturedAwayFromEmpty(cells, grouping, groups, group + 1)
    ELSE \E capture \in {capture_group(grouping, group)} :
             /\ \A p \in CellsOf(grouping, group), q \in all_positions :
                    Adjacent(p, q) =>
                        /\ board_get(cells, q) # NoPlayer
                        /\ grouping.group_info[grouping.pos_to_group[q]].kind
                               # "EmptyStonesGroup"
             /\ ~capture.panicked
             /\ CapturedAwayFromEmpty(on_remove(cells, capture.removed),
                                      capture.analysis, groups, group + 1)

\* C31: in a place_stone on any position the game can reach, every group
\* selected for capture (a group with an owner and no liberties), in the first
\* half of the protocol and in the second, touches no empty cell and no empty
\* group when it is captured, also when other groups were captured before it
\* in the same move; the panic! of Analysis::capture_group cannot be met.
C31_CapturedGroupTouchesNoEmptyGroup ==
    [][last'.op = "place_stone" /\ last'.result = "Ok" =>
          \E placed \in {PlacedAt(last'.pos)} :
              /\ CapturedAwayFromEmpty(placed.board, placed.analysis,
                     groups_to_capture(placed, current_player), 0)
              /\ \E first \in {player_takes_prisoners(placed, current_player)} :
                    \E refreshed \in {[first EXCEPT !.analysis =
                                          update_group_info(@, first.board)]} :
                        CapturedAwayFromEmpty(refreshed.board, refreshed.analysis,
                            groups_to_capture(refreshed, other_player(current_player)),
                            0)]_vars

\* Black has played (1,0) and taken two stones; what is left are the Black
\* stones at (1,0), (0,1) and (2,1), so the stones taken stood in the two
\* upper corners and were two groups.
C31_Witness ==
    /\ last.op = "place_stone"
    /\ last.pos = from_xy(1, 0)
    /\ last.result = "Ok"
    /\ last.captured["Black"] = 2
    /\ StonesOf(board, "Black") = {from_xy(1, 0), from_xy(0, 1), from_xy(2, 1)}
    /\ StonesOf(board, "White") = {}

---------------------------------------------------------------------------
\* C32: analyze of any board meets no failed owner assertion and leaves no
\* group Unknown: every group is a PlayerGroup whose owner is the colour of
\* each of its cells, or an EmptyStonesGroup all of whose cells are empty; no
\* group holds a stone and an empty cell.
C32_EveryGroupIsPlayerOrEmpty ==
    \E fresh \in {analyze(board)} :
        \A g \in DOMAIN fresh.group_info :
            \/ /\ fresh.group_info[g].kind = "PlayerGroup"
               /\ fresh.group_info[g].owner \in Player
               /\ \A pos \in CellsOf(fresh, g) :
                      board_get(board, pos) = fresh.group_info[g].owner
            \/ /\ fresh.group_info[g] = EmptyStonesGroup
               /\ \A pos \in CellsOf(fresh, g) : board_get(board, pos) = NoPlayer

\* C32 witness: the analysis of a board with stones of both colours and
\* empty cells has a Black group, a White group and an empty group, and a
\* group of more than one cell.
C32_Witness ==
    /\ last.op = "analyze"
    /\ analysis = analyze(board)
    /\ \E b, w, e \in DOMAIN analysis.group_info :
          /\ analysis.group_info[b].kind = "PlayerGroup"
          /\ analysis.group_info[b].owner = "Black"
          /\ Cardinality(CellsOf(analysis, b)) > 1
          /\ analysis.group_info[w].kind = "PlayerGroup"
          /\ analysis.group_info[w].owner = "White"
          /\ analysis.group_info[e].kind = "EmptyStonesGroup"
          /\ Cardinality(CellsOf(analysis, e)) > 1

---------------------------------------------------------------------------
\* The coordinates of a position, by division with remainder on its index.
XOf(pos) == pos % N

YOf(pos) == pos \div N

\* What the neighbour function `op` has to return on pos: nothing at the edge
\* named, otherwise the index moved by `offset`.
NeighbourAt(pos, at_edge, offset) == IF at_edge THEN {} ELSE {pos + offset}

\* C33: left is None exactly when x = 0, right exactly when x = N-1, up
\* exactly when y = 0, down exactly when y = N-1; otherwise they return
\* index-1, index+1, index-N and index+N.  Hence q = right(p) iff p = left(q)
\* and q = down(p) iff p = up(q), a left or right neighbour lies in the row
\* of its position, and every neighbour lies in 0 .. N*N-1.
C33_NeighboursRespectEdges ==
    /\ last.op = "left"
           => /\ last.result = NeighbourAt(last.pos, XOf(last.pos) = 0, -1)
              /\ \A q \in all_positions : last.result = {q} <=> right(q) = {last.pos}
    /\ last.op = "right"
           => /\ last.result = NeighbourAt(last.pos, XOf(last.pos) = N - 1, 1)
              /\ \A q \in all_positions : last.result = {q} <=> left(q) = {last.pos}
    /\ last.op = "up"
           => /\ last.result = NeighbourAt(last.pos, YOf(last.pos) = 0, -N)
              /\ \A q \in all_positions : last.result = {q} <=> down(q) = {last.pos}
    /\ last.op = "down"
           => /\ last.result = NeighbourAt(last.pos, YOf(last.pos) = N - 1, N)
              /\ \A q \in all_positions : last.result = {q} <=> up(q) = {last.pos}
    /\ last.op \in {"left", "right"}
           => \A q \in last.result : YOf(q) = YOf(last.pos)
    /\ last.op \in {"left", "right", "up", "down"}
           => last.result \subseteq 0 .. (N * N - 1)

\* C33 witness: right was called on the last cell of a row that is not the
\* last row, where index+1 is a cell of the board, and returned None.
C33_Witness ==
    /\ last.op = "right"
    /\ XOf(last.pos) = N - 1
    /\ last.pos + 1 \in all_positions
    /\ last.result = {}

---------------------------------------------------------------------------
\* The text after the first two characters.
AfterWinner(text) == SubSeq(text, 3, Len(text))

\* The text begins with the letter of a player and a plus sign.
Names(text, letter) == Len(text) >= 2 /\ text[1] = letter /\ text[2] = "+"

\* C39: parse_outcome of a text that begins with B+ is a win of Black, of a
\* text that begins with W+ a win of White, each with the margin parse_margin
\* reads from the rest (and an error when that is an error); Jigo, Void,
\* Unfinished and Unknown are Draw, Void, Unfinished and Unknown; every
\* other text is an error.
C39_WinnerIsNamedByResult ==
    last.op = "parse_outcome" =>
        LET text == last.text
            rest == parse_margin(AfterWinner(text))
            winner == IF Names(text, "B") THEN "Black" ELSE "White"
        IN IF Names(text, "B") \/ Names(text, "W")
           THEN IF rest.ok
                THEN last.result = [ok |-> TRUE, outcome |-> WithWinner(winner, rest.margin)]
                ELSE ~last.result.ok
           ELSE IF text = <<"J", "i", "g", "o">>
           THEN last.result = [ok |-> TRUE, outcome |-> [kind |-> "Draw"]]
           ELSE IF text = <<"V", "o", "i", "d">>
           THEN last.result = [ok |-> TRUE, outcome |-> [kind |-> "Void"]]
           ELSE IF text = <<"U", "n", "f", "i", "n", "i", "s", "h", "e", "d">>
           THEN last.result = [ok |-> TRUE, outcome |-> [kind |-> "Unfinished"]]
           ELSE IF text = <<"U", "n", "k", "n", "o", "w", "n">>
           THEN last.result = [ok |-> TRUE, outcome |-> [kind |-> "Unknown"]]
           ELSE ~last.result.ok

---------------------------------------------------------------------------
\* The colour a node records its move for; a node with both properties or
\* with neither records none.
RecordedColour(node) ==
    IF node.B # {} /\ node.W = {} THEN "Black"
    ELSE IF node.W # {} /\ node.B = {} THEN "White"
    ELSE NoPlayer

\* The nodes of the file in the order of play: the root node when it carries
\* a move, then the nodes below it.
MoveNodes(file) ==
    IF file.root.B # {} \/ file.root.W # {}
    THEN <<file.root>> \o file.nodes
    ELSE file.nodes

\* Every node of the line carries exactly one of B and W, and the colours
\* alternate from Black on.
Alternates(line) ==
    \A k \in DOMAIN line :
        RecordedColour(line[k]) = IF k % 2 = 1 THEN "Black" ELSE "White"

\* In a turn of the replay the Game plays for the colour the line records
\* for that move.
ReplaysColoursOf(line) ==
    last'.op \in {"pass_turn", "place_stone"}
        => /\ moves + 1 \in DOMAIN line
           /\ last'.player = RecordedColour(line[moves + 1])

\* C34: parse_sgf accepts a game only if every node that carries a move
\* carries exactly one of B and W and the colours alternate from Black on,
\* passes included; and when the parsed moves are replayed from a new game
\* through pass_turn and place_stone, the k-th move is played for the colour
\* the file records for its k-th move.
C34_ReplayFollowsFileColours ==
    /\ [](run.pc \in {"parsed", "panicked"} => Alternates(MoveNodes(run.file)))
    /\ [][ReplaysColoursOf(MoveNodes(run.file))]_vars

---------------------------------------------------------------------------
\* C35: a place_stone on a position the game can reach never removes stones
\* of both colours: when it removes an opponent stone, no stone of the mover
\* is removed, the stone just placed included; the prisoner count of at most
\* one player changes in a move.
C35_OneColourRemovedPerMove ==
    [][\A pos \in all_positions :
          PlacedOk(pos)
              => /\ Removed(other_player(current_player)) # {}
                     => /\ Removed(current_player) = {}
                        /\ board_get(board', pos) = current_player
                 /\ \E player \in Player :
                        num_captured_by'[player] = num_captured_by[player]]_vars

\* C35 witness: a stone written without liberties has taken two or more
\* stones and stands, nothing of its own colour was taken, and stones of the
\* opponent are left on the board.
C35_Witness ==
    /\ last.op = "place_stone"
    /\ last.result = "Ok"
    /\ last.liberties = 0
    /\ last.captured[other_player(current_player)] >= 2
    /\ last.captured[current_player] = 0
    /\ board_get(board, last.pos) = other_player(current_player)
    /\ StonesOf(board, current_player) # {}

---------------------------------------------------------------------------
\* C36: when place_stone(pos) returns Ok, the cells that held a stone once
\* the new stone was written and are empty afterwards are whole chains that
\* had no liberty when they were removed (opponent chains on the board with
\* the new stone, chains of the mover on the board without the opponent's
\* dead chains); every other cell holds what it held before the call, pos
\* the new stone.
C36_OnlyWholeDeadChainsChange ==
    [][\A pos \in all_positions :
          PlacedOk(pos) =>
              LET mover == current_player
                  placed == board_set(board, pos, mover)
                  first == Without(placed, Dead(placed, other_player(mover)))
                  removed == {q \in all_positions :
                                 /\ board_get(placed, q) # NoPlayer
                                 /\ board_get(board', q) = NoPlayer}
              IN /\ \A q \in all_positions \ (removed \cup {pos}) :
                        board_get(board', q) = board_get(board, q)
                 /\ pos \notin removed => board_get(board', pos) = mover
                 /\ \A q \in removed :
                        \E stage \in {IF board_get(placed, q) = mover
                                       THEN first
                                       ELSE placed} :
                            \E chain \in {ChainOf(stage, q)} :
                                /\ LibertiesOf(stage, chain) = {}
                                /\ chain \subseteq removed]_vars

\* C36 witness: a placement has taken a chain of two or more stones with a
\* stone that had liberties when it was written; stones of both colours
\* stand on the board, more than one of the mover.
C36_Witness ==
    /\ last.op = "place_stone"
    /\ last.result = "Ok"
    /\ last.liberties > 0
    /\ last.captured[other_player(current_player)] >= 2
    /\ last.captured[current_player] = 0
    /\ StonesOf(board, current_player) # {}
    /\ Cardinality(StonesOf(board, other_player(current_player))) > 1

---------------------------------------------------------------------------
\* C37: after a place_stone that returned Ok the analysis the Game holds is
\* the analysis of its board: the group of every cell, the kind and owner of
\* every group and the liberties of every group of stones are those of
\* analyze on the board, also after a move that removed stones of the mover.
C37_CachedAnalysisIsOfBoard ==
    (last.op = "place_stone" /\ last.result = "Ok") =>
        \E fresh \in {analyze(board)} :
            /\ analysis.pos_to_group = fresh.pos_to_group
            /\ DOMAIN analysis.group_info = DOMAIN fresh.group_info
            /\ \A g \in DOMAIN fresh.group_info :
                   /\ analysis.group_info[g].kind = fresh.group_info[g].kind
                   /\ analysis.group_info[g].owner = fresh.group_info[g].owner
                   /\ fresh.group_info[g].kind = "PlayerGroup"
                          => analysis.group_info[g].liberties =
                                 fresh.group_info[g].liberties

---------------------------------------------------------------------------
\* Every stone has an empty cell next to it or next to its chain.
EveryChainHasLiberty(cells) ==
    \A pos \in all_positions :
        board_get(cells, pos) # NoPlayer
            => \/ \E q \in all_positions :
                      Adjacent(pos, q) /\ board_get(cells, q) = NoPlayer
               \/ LibertiesOf(cells, ChainOf(cells, pos)) # {}

\* One call on a Game built by from_board from a position of more than
\* MaxStones stones in which every chain has a liberty: together with the
\* positions of SpecFromLegal these are all the positions without a chain
\* without liberties, and every position a game can come to is one.
InitFromCrowded ==
    \E values \in {v \in Positions(NumCells) \ Positions(MaxStones) :
                       EveryChainHasLiberty(board_of(v))},
       player \in Player :
        \E game \in {from_board(board_of(values), player, [p \in Player |-> 0])} :
            /\ board = game.board
            /\ current_player = game.current_player
            /\ num_captured_by = game.num_captured_by
            /\ analysis = game.analysis
            /\ last = Called("from_board")
            /\ moves = 0
            /\ run = NotRunning

SpecFromCrowded == InitFromCrowded /\ [][NextFromBoard]_vars

\* C38: no state of a game has a full board.  The new game has an empty
\* board and no chain without liberties; place_stone and pass_turn, from
\* any board without a chain without liberties, however few its empty cells,
\* leave a board that again has none and has an empty cell.
C38_BoardIsNeverFull ==
    /\ ~Full(board)
    /\ last.op \in {"place_stone", "pass_turn"} => EveryChainHasLiberty(board)

\* C38 witness: a stone was placed on the last empty cell of the board and
\* returned Ok: the stones on the board and the stones taken in the move are
\* as many as the board has cells.
C38_Witness ==
    /\ last.op = "place_stone"
    /\ last.result = "Ok"
    /\ Cardinality(Stones(board)) + last.captured["Black"] + last.captured["White"]
           = NumCells

====
